---- MODULE Spec2Model ----
(***************************************************************************)
(* The adaptive memory of the marketing agents: MemoryManager (store,      *)
(* retrieve, consolidate, compressMemory), the BaseAgent wrappers around   *)
(* it and the orchestrator's semantic broadcast.                           *)
(*                                                                         *)
(* Conventions.  A JavaScript object is a TLA+ record; an optional field   *)
(* is a field that may be missing from the record's DOMAIN (undefined).    *)
(* Every payload object carries "oid", its object identity (allocation     *)
(* order), which the program never reads.  A string is the sequence of    *)
(* its atoms (maximal pieces without a separator), the separator " "       *)
(* being an atom, so that a + ' ' + b is a \o <<" ">> \o b.  Time is        *)
(* counted in days; a confidence is an exact fraction <<numerator,         *)
(* denominator>>; a relevance score is counted in thousandths.             *)
(***************************************************************************)
EXTENDS Integers, Sequences, FiniteSets, TLC

VARIABLES
  memory,     \* agent id -> AgentMemory of that agent's MemoryManager
  now,        \* Date.now(), in days
  nextOid,    \* next object identity / uuid to hand out
  lastOp,     \* what the last public call was, what it did and returned
  history,    \* every store() call so far, in call order
  pending,    \* caller -> where its pending store()/consolidate() is suspended
  mcp         \* the MCP client's request: attempt, state and attempts made

vars == <<memory, now, nextOid, lastOp, history, pending, mcp>>

\* ---------------------------------------------------------------------------
\* Sizes.  The program's limits are scaled down so that an overflow is within
\* reach of exhaustive search; the program's values are noted beside them.
\* ---------------------------------------------------------------------------
MAX_SHORT_TERM_ITEMS == 3      \* 100 in the program
CONSOLIDATION_THRESHOLD == 2   \* 50 in the program
RESULT_LIMIT == 2              \* slice(0, 50) in the program
MaxStores == 5                 \* store() calls in one behaviour
MaxNow == 70
MaxRouteStores == 2
MaxProfiles == 3
MaxLearnStores == 3
MaxEpisodes == 10
MaxAsyncStores == 4
MaxPasses == 8

PRIORITY_LIMIT == 7
MESSAGES_LIMIT == 10
INTERACTION_MIN == 3
DECISION_MIN == 2
RECENT_DAYS == 7
PATTERN_DECAY_DAYS == 30
NODE_DECAY_DAYS == 60
COMPRESS_MIN == 5

\* ---------------------------------------------------------------------------
\* JavaScript helpers
\* ---------------------------------------------------------------------------
Has(r, k) == k \in DOMAIN r

\* const x = v; ... : the value is computed once and named
Bind(v, F(_)) == CHOOSE r \in {F(x) : x \in {v}} : TRUE

Range(s) == {s[i] : i \in 1..Len(s)}

SelectIdx(s, keep) ==
  \* Array.prototype.filter by a set of kept indices
  LET F[i \in 0..Len(s)] ==
        IF i = 0 THEN <<>>
        ELSE IF i \in keep THEN Append(F[i-1], s[i]) ELSE F[i-1]
  IN F[Len(s)]

Take(s, n) == SubSeq(s, 1, IF Len(s) < n THEN Len(s) ELSE n)

Min2(a, b) == IF a < b THEN a ELSE b
Max2(a, b) == IF a > b THEN a ELSE b

\* Position of element i after Array.prototype.sort((a, b) => key(b) - key(a)):
\* descending by key, elements of equal key in their original order.
StableRank(key, i) ==
  1 + Cardinality({j \in DOMAIN key :
        key[j] > key[i] \/ (key[j] = key[i] /\ j < i)})

SortDesc(s, key) ==
  [p \in 1..Len(s) |-> s[CHOOSE i \in 1..Len(s) : StableRank(key, i) = p]]

\* ---------------------------------------------------------------------------
\* Exact fractions (confidence values)
\* ---------------------------------------------------------------------------
RECURSIVE Gcd(_, _)
Gcd(a, b) == IF b = 0 THEN a ELSE Gcd(b, a % b)

Frac(n, d) == LET g == Gcd(n, d) IN IF g = 0 THEN <<0, 1>> ELSE <<n \div g, d \div g>>
FracAdd(x, y) == Frac(x[1] * y[2] + y[1] * x[2], x[2] * y[2])
FracMul(x, y) == Frac(x[1] * y[1], x[2] * y[2])
FracLt(x, y) == x[1] * y[2] < y[1] * x[2]
FracLe(x, y) == x[1] * y[2] <= y[1] * x[2]
\* Mutation: the smaller of two confidences is taken to be the first.
FracMinFirst(x, y) == x

FracMin(x, y) == IF FracLt(y, x) THEN y ELSE x
FracMax(x, y) == IF FracLt(x, y) THEN y ELSE x

MEMORY_DECAY_FACTOR == Frac(95, 100)

\* ---------------------------------------------------------------------------
\* initializeMemory
\* ---------------------------------------------------------------------------
NoSlots == [k \in {} |-> 0]

initializeMemory ==
  [ shortTerm |-> [ currentContext |-> <<>>, activeLeads |-> <<>>,
                    recentActions |-> <<>>, workingMemory |-> NoSlots ],
    longTerm  |-> [ customerProfiles |-> <<>>, campaignHistory |-> <<>>,
                    performanceMetrics |-> <<>>, learningPatterns |-> <<>> ],
    episodic  |-> [ successfulInteractions |-> <<>>, problemResolutions |-> <<>>,
                    decisionOutcomes |-> <<>>, contextualLearnings |-> <<>> ],
    semantic  |-> [ domainKnowledge |-> <<>>, relationships |-> <<>>,
                    concepts |-> <<>>, rules |-> <<>> ] ]

Tiers == {"short", "long", "episodic", "semantic"}

TierField(tier) ==
  CASE tier = "short" -> "shortTerm"
    [] tier = "long" -> "longTerm"
    [] tier = "episodic" -> "episodic"
    [] tier = "semantic" -> "semantic"

ListFields(tier) ==
  CASE tier = "short" -> {"currentContext", "activeLeads", "recentActions"}
    [] tier = "long" -> {"customerProfiles", "campaignHistory",
                         "performanceMetrics", "learningPatterns"}
    [] tier = "episodic" -> {"successfulInteractions", "problemResolutions",
                             "decisionOutcomes", "contextualLearnings"}
    [] tier = "semantic" -> {"domainKnowledge", "relationships", "concepts", "rules"}

Push(m, tierField, list, x) ==
  [m EXCEPT ![tierField][list] = Append(@, x)]

\* ---------------------------------------------------------------------------
\* enforceShortTermLimits / shouldConsolidate
\* ---------------------------------------------------------------------------
LimitList(s, key) ==
  IF Len(s) > MAX_SHORT_TERM_ITEMS
  THEN Take(SortDesc(s, key), MAX_SHORT_TERM_ITEMS)
  ELSE s

\* Mutation: the overflowing list is cut without being sorted first.
enforceShortTermLimitsUnsorted(m) ==
  [m EXCEPT
     !.shortTerm.currentContext = Take(@, MAX_SHORT_TERM_ITEMS),
     !.shortTerm.activeLeads = Take(@, MAX_SHORT_TERM_ITEMS),
     !.shortTerm.recentActions = Take(@, MAX_SHORT_TERM_ITEMS)]

\* Mutation: the recentActions list is left out of the enforcement.
enforceShortTermLimitsTwoLists(m) ==
  Bind(m.shortTerm, LAMBDA st :
  [m EXCEPT
     !.shortTerm.currentContext =
        LimitList(st.currentContext,
                  [i \in 1..Len(st.currentContext) |-> st.currentContext[i].priority]),
     !.shortTerm.activeLeads =
        LimitList(st.activeLeads,
                  [i \in 1..Len(st.activeLeads) |-> st.activeLeads[i].score])])

enforceShortTermLimits(m) ==
  Bind(m.shortTerm, LAMBDA st :
  [m EXCEPT
     !.shortTerm.currentContext =
        LimitList(st.currentContext,
                  [i \in 1..Len(st.currentContext) |-> st.currentContext[i].priority]),
     !.shortTerm.activeLeads =
        LimitList(st.activeLeads,
                  [i \in 1..Len(st.activeLeads) |-> st.activeLeads[i].score]),
     !.shortTerm.recentActions =
        LimitList(st.recentActions,
                  [i \in 1..Len(st.recentActions) |-> st.recentActions[i].timestamp])])

\* Mutation: only the conversation contexts are counted.
ShortTermSizeOfContexts(m) == Len(m.shortTerm.currentContext)

ShortTermSize(m) ==
  Len(m.shortTerm.currentContext) + Len(m.shortTerm.activeLeads)
    + Len(m.shortTerm.recentActions)

\* Mutation: the trigger fires already at the threshold.
shouldConsolidateAtThreshold(m) == ShortTermSize(m) >= CONSOLIDATION_THRESHOLD

shouldConsolidate(m) == ShortTermSize(m) > CONSOLIDATION_THRESHOLD

\* ---------------------------------------------------------------------------
\* store routing: storeShortTerm, storeLongTerm, storeEpisodic, storeSemantic
\* ---------------------------------------------------------------------------
ShortTags == {"conversation_context", "active_lead", "processed_lead", "recent_action"}

\* Mutation: a working-memory slot that is taken keeps its first payload.
storeShortTermFirstWriteWins(m, item) ==
  Bind(CASE item.type = "conversation_context" ->
              Push(m, "shortTerm", "currentContext", item.data)
         [] item.type \in {"active_lead", "processed_lead"} ->
              Push(m, "shortTerm", "activeLeads", item.data)
         [] item.type = "recent_action" ->
              Push(m, "shortTerm", "recentActions", item.data)
         [] OTHER ->
              [m EXCEPT !.shortTerm.workingMemory =
                 [k \in DOMAIN @ \cup {item.type} |->
                    IF k \in DOMAIN @ THEN @[k] ELSE item.data]],
       LAMBDA placed : enforceShortTermLimits(placed))

storeShortTerm(m, item) ==
  Bind(CASE item.type = "conversation_context" ->
              Push(m, "shortTerm", "currentContext", item.data)
         [] item.type \in {"active_lead", "processed_lead"} ->
              Push(m, "shortTerm", "activeLeads", item.data)
         [] item.type = "recent_action" ->
              Push(m, "shortTerm", "recentActions", item.data)
         [] OTHER ->
              [m EXCEPT !.shortTerm.workingMemory =
                 [k \in DOMAIN @ \cup {item.type} |->
                    IF k = item.type THEN item.data ELSE @[k]]],
       LAMBDA placed : enforceShortTermLimits(placed))

\* Mutation: campaigns are filed with the customer profiles.
storeLongTermMisfiled(m, item) ==
  CASE item.type \in {"customer_profile", "campaign"} ->
         Push(m, "longTerm", "customerProfiles", item.data)
    [] item.type = "performance_metric" -> Push(m, "longTerm", "performanceMetrics", item.data)
    [] item.type = "learning_pattern" -> Push(m, "longTerm", "learningPatterns", item.data)
    [] OTHER -> m

storeLongTerm(m, item) ==
  CASE item.type = "customer_profile" -> Push(m, "longTerm", "customerProfiles", item.data)
    [] item.type = "campaign" -> Push(m, "longTerm", "campaignHistory", item.data)
    [] item.type = "performance_metric" -> Push(m, "longTerm", "performanceMetrics", item.data)
    [] item.type = "learning_pattern" -> Push(m, "longTerm", "learningPatterns", item.data)
    [] OTHER -> m

storeEpisodic(m, item) ==
  CASE item.type \in {"interaction", "successful_interaction"} ->
         Push(m, "episodic", "successfulInteractions", item.data)
    [] item.type = "problem_resolution" ->
         Push(m, "episodic", "problemResolutions", item.data)
    [] item.type \in {"decision_outcome", "learning_outcome"} ->
         Push(m, "episodic", "decisionOutcomes", item.data)
    [] item.type = "contextual_learning" ->
         Push(m, "episodic", "contextualLearnings", item.data)
    [] OTHER -> m

storeSemantic(m, item) ==
  CASE item.type = "domain_knowledge" -> Push(m, "semantic", "domainKnowledge", item.data)
    [] item.type = "relationship" -> Push(m, "semantic", "relationships", item.data)
    [] item.type = "concept" -> Push(m, "semantic", "concepts", item.data)
    [] item.type \in {"business_rule", "learning_pattern",
                      "optimization_strategy", "engagement_strategy"} ->
         Push(m, "semantic", "rules", item.data)
    [] OTHER -> m

Place(m, tier, item) ==
  CASE tier = "short" -> storeShortTerm(m, item)
    [] tier = "long" -> storeLongTerm(m, item)
    [] tier = "episodic" -> storeEpisodic(m, item)
    [] tier = "semantic" -> storeSemantic(m, item)

\* ---------------------------------------------------------------------------
\* Strings: a string is the sequence of its atoms, the separator " " being an
\* atom of its own; a template literal is the concatenation of its parts.
\* ---------------------------------------------------------------------------
Split(s) ==
  \* String.prototype.split(' '): the words between the separators
  LET F[i \in 0..Len(s)] ==
        IF i = 0 THEN << <<>> >>
        ELSE IF s[i] = " " THEN Append(F[i-1], <<>>)
        ELSE [F[i-1] EXCEPT ![Len(F[i-1])] = Append(@, s[i])]
  IN F[Len(s)]

LowerAtom(a) ==
  CASE a = "AI" -> "ai"
    [] a = "Email" -> "email"
    [] a = "Lead" -> "lead"
    [] OTHER -> a

toLowerCase(s) == [i \in 1..Len(s) |-> LowerAtom(s[i])]

\* The keys of a list in the order a Map first meets them.
FirstKeys(keys) ==
  SelectIdx(keys, {i \in 1..Len(keys) : \A j \in 1..(i-1) : keys[j] # keys[i]})

Members(s, keys, k) == SelectIdx(s, {i \in 1..Len(s) : keys[i] = k})

RECURSIVE SumSeq(_)
SumSeq(s) == IF s = <<>> THEN 0 ELSE Head(s) + SumSeq(Tail(s))

\* A step's outcome: the memory it leaves, the next uuid, and whether it threw.
Done(m, u) == [mem |-> m, uuid |-> u, threw |-> FALSE]
Threw(m, u) == [mem |-> m, uuid |-> u, threw |-> TRUE]

\* ---------------------------------------------------------------------------
\* consolidateShortToLong
\* ---------------------------------------------------------------------------
\* Mutation: only the priority makes a context important.
IsImportantByPriority(c) == c.priority > PRIORITY_LIMIT

IsImportant(c) ==
  c.priority > PRIORITY_LIMIT \/ Len(c.messages) > MESSAGES_LIMIT

\* Evaluating the filter predicate on c throws: messages is read (priority does
\* not short-circuit) and is undefined.
ImportantThrows(c) == ~(c.priority > PRIORITY_LIMIT) /\ ~Has(c, "messages")

Profile(c, agentId, t) ==
  [ id |-> c.leadId, email |-> <<>>, name |-> <<>>,
    interactionHistory |->
      [i \in 1..Len(c.messages) |->
         [ id |-> c.messages[i].id, customerId |-> c.leadId, agentId |-> agentId,
           type |-> "chat", content |-> c.messages[i].content,
           outcome |-> "neutral", sentiment |-> 0 ]],
    segmentTags |-> <<>>, lifetimeValue |-> 0, lastEngagement |-> t,
    preferences |-> [ communicationChannel |-> <<"email">>, contentTypes |-> <<"text">>,
                      frequency |-> "weekly", topics |-> <<>>, timezone |-> "UTC" ] ]

KeepsUnimportant(c) ==
  c.priority <= PRIORITY_LIMIT /\ Len(c.messages) <= MESSAGES_LIMIT

\* Mutation: the promoted contexts are not cleared from currentContext.
consolidateShortToLongKeeping(m, agentId, t, u) ==
  LET cc == m.shortTerm.currentContext
      important == SelectIdx(cc, {i \in 1..Len(cc) : IsImportant(cc[i])})
      profiles == [i \in 1..Len(important) |-> Profile(important[i], agentId, t)]
  IN Done([m EXCEPT !.longTerm.customerProfiles = @ \o profiles], u)

consolidateShortToLong(m, agentId, t, u) ==
  LET cc == m.shortTerm.currentContext
      n == Len(cc)
  IN
  IF \E i \in 1..n : ImportantThrows(cc[i])
  THEN Threw(m, u)
  ELSE
    LET important == SelectIdx(cc, {i \in 1..n : IsImportant(cc[i])})
        k == Len(important)
        \* forEach pushes a profile per context until messages.map throws
        bad == {i \in 1..k : ~Has(important[i], "messages")}
        stop == IF bad = {} THEN k
                ELSE (CHOOSE i \in bad : \A j \in bad : i <= j) - 1
        profiles == [i \in 1..stop |-> Profile(important[i], agentId, t)]
        pushed == [m EXCEPT !.longTerm.customerProfiles = @ \o profiles]
    IN
    IF bad # {} THEN Threw(pushed, u)
    ELSE Done([pushed EXCEPT !.shortTerm.currentContext =
                 SelectIdx(cc, {i \in 1..n : KeepsUnimportant(cc[i])})], u)

\* ---------------------------------------------------------------------------
\* extractPatternsFromEpisodic: findInteractionPatterns, findDecisionPatterns
\* ---------------------------------------------------------------------------
Field(r, k) == IF Has(r, k) THEN <<r[k]>> ELSE <<"undefined">>

InteractionKey(x) == Field(x, "type") \o <<"_">> \o Field(x, "outcome")

IsSuccess(x) == Has(x, "outcome") /\ x.outcome \in {"positive", "conversion"}

JSONstringify(x) == IF Has(x, "metadata") THEN <<"json", x.metadata>> ELSE <<"undefined">>

\* Mutation: two occurrences are enough for a pattern.
InteractionQualifiesAtTwo(count) == count >= 2

InteractionQualifies(count) == count >= INTERACTION_MIN

findInteractionPatterns(interactions, t, u) ==
  LET keys == [i \in 1..Len(interactions) |-> InteractionKey(interactions[i])]
      groups == FirstKeys(keys)
      qualifying == SelectIdx(groups,
        {g \in 1..Len(groups) :
           InteractionQualifies(Len(Members(interactions, keys, groups[g])))})
  IN [g \in 1..Len(qualifying) |->
        LET mem == Members(interactions, keys, qualifying[g])
            count == Len(mem)
            successCount == Cardinality({i \in 1..count : IsSuccess(mem[i])})
        IN [ id |-> u + g - 1, pattern |-> qualifying[g],
             confidence |-> Frac(successCount, count), applications |-> count,
             successRate |-> Frac(successCount, count), lastUsed |-> t,
             context |-> [i \in 1..count |-> JSONstringify(mem[i])] ]]

DecisionKey(o) ==
  IF Has(o, "decision") THEN <<o.decision>> ELSE Field(o, "actionType")

DecisionSuccess(o) ==
  (Has(o, "success") /\ o.success) \/ (Has(o, "impact") /\ o.impact > 0)

ImpactOf(o) == IF Has(o, "impact") /\ o.impact # 0 THEN o.impact ELSE 1

findDecisionPatterns(outcomes, t, u) ==
  LET keys == [i \in 1..Len(outcomes) |-> DecisionKey(outcomes[i])]
      groups == FirstKeys(keys)
      qualifying == SelectIdx(groups,
        {g \in 1..Len(groups) : Len(Members(outcomes, keys, groups[g])) >= DECISION_MIN})
  IN [g \in 1..Len(qualifying) |->
        LET mem == Members(outcomes, keys, qualifying[g])
            count == Len(mem)
            good == SelectIdx(mem, {i \in 1..count : DecisionSuccess(mem[i])})
            impacts == [i \in 1..Len(good) |-> ImpactOf(good[i])]
            avgImpact == IF Len(impacts) > 0 THEN Frac(SumSeq(impacts), Len(impacts))
                         ELSE Frac(0, 1)
        IN [ id |-> u + g - 1, pattern |-> <<"decision", "_">> \o qualifying[g],
             confidence |-> Frac(Len(good), count), applications |-> count,
             successRate |-> Frac(Len(good), count), lastUsed |-> t,
             context |-> << <<"average_impact:", avgImpact>> >> ]]

\* Mutation: a pattern whose key is already in learningPatterns is not added.
extractPatternsFromEpisodicOnce(m, t, u) ==
  LET ip == findInteractionPatterns(m.episodic.successfulInteractions, t, u)
      known == {m.longTerm.learningPatterns[i].pattern :
                  i \in 1..Len(m.longTerm.learningPatterns)}
      fresh == SelectIdx(ip, {i \in 1..Len(ip) : ip[i].pattern \notin known})
  IN Done([m EXCEPT !.longTerm.learningPatterns = @ \o fresh], u + Len(ip))

extractPatternsFromEpisodic(m, t, u) ==
  LET ip == findInteractionPatterns(m.episodic.successfulInteractions, t, u)
      dp == findDecisionPatterns(m.episodic.decisionOutcomes, t, u + Len(ip))
  IN Done([m EXCEPT !.longTerm.learningPatterns = @ \o ip \o dp],
          u + Len(ip) + Len(dp))

\* ---------------------------------------------------------------------------
\* calculateConceptSimilarity
\* ---------------------------------------------------------------------------
WordSet(node) ==
  Range(Split(toLowerCase(node.concept))) \cup Range(Split(toLowerCase(node.description)))

\* toLowerCase() of an undefined concept or description throws.
SimilarityThrows(c1, c2) ==
  \E c \in {c1, c2} : ~Has(c, "concept") \/ ~Has(c, "description")

calculateConceptSimilarity(c1, c2) ==
  LET words1 == WordSet(c1)
      words2 == WordSet(c2)
  IN Frac(Cardinality(words1 \cap words2), Cardinality(words1 \cup words2))

\* The index pairs (i, j), i < j, in the order the nested loops visit them.
PairSeq(n) ==
  LET pairs == {p \in (1..n) \X (1..n) : p[1] < p[2]}
      rank(p) == Cardinality({q \in pairs : q[1] < p[1] \/ (q[1] = p[1] /\ q[2] <= p[2])})
  IN [k \in 1..Cardinality(pairs) |-> CHOOSE p \in pairs : rank(p) = k]

\* ---------------------------------------------------------------------------
\* updateSemanticKnowledge / updateConceptRelationships
\* ---------------------------------------------------------------------------
\* Mutation: a fifth of the words in common is enough for a link.
LINK_SIMILARITY_LOW == Frac(2, 10)

LINK_SIMILARITY == Frac(6, 10)
MERGE_SIMILARITY == Frac(8, 10)
CONFIDENCE_STEP == Frac(1, 10)
CONFIDENCE_FLOOR == Frac(1, 10)
One == Frac(1, 1)

Opt(k, src, f) == IF Has(src, f) THEN [x \in {k} |-> src[f]] ELSE NoSlots

\* Mutation: the age of a learning is not looked at.
IsRecentAlways(learning, t) == TRUE

IsRecent(learning, t) ==
  Has(learning, "timestamp") /\ t - learning.timestamp < RECENT_DAYS

\* Mutation: only a relationship in the same direction counts as existing.
ConnectsForward(rel, a, b) == rel.source = a /\ rel.target = b

Connects(rel, a, b) ==
  (rel.source = a /\ rel.target = b) \/ (rel.source = b /\ rel.target = a)

updateConceptRelationships(m, agentId, t, u) ==
  LET concepts == m.semantic.domainKnowledge
      pairs == PairSeq(Len(concepts))
      F[k \in 0..Len(pairs)] ==
        IF k = 0 THEN [rels |-> m.semantic.relationships, uuid |-> u, threw |-> FALSE]
        ELSE
          LET prev == F[k-1]
              ci == concepts[pairs[k][1]]
              cj == concepts[pairs[k][2]]
          IN
          IF prev.threw THEN prev
          ELSE IF SimilarityThrows(ci, cj) THEN [prev EXCEPT !.threw = TRUE]
          ELSE
            LET similarity == calculateConceptSimilarity(ci, cj) IN
            IF FracLt(LINK_SIMILARITY, similarity)
               /\ ~\E r \in 1..Len(prev.rels) : Connects(prev.rels[r], ci.id, cj.id)
            THEN [prev EXCEPT
                    !.rels = Append(@, [ id |-> prev.uuid, source |-> ci.id,
                                         target |-> cj.id, type |-> "related_to",
                                         strength |-> similarity,
                                         metadata |-> [createdAt |-> t, agentId |-> agentId] ]),
                    !.uuid = @ + 1]
            ELSE prev
      out == F[Len(pairs)]
  IN [mem |-> [m EXCEPT !.semantic.relationships = out.rels],
      uuid |-> out.uuid, threw |-> out.threw]

\* Mutation: no node is ever found for a learning.
SameConceptNever(node, learning) == FALSE

SameConcept(node, learning) ==
  Opt("c", node, "concept") = Opt("c", learning, "context")

updateSemanticKnowledge(m, agentId, t, u) ==
  LET cl == m.episodic.contextualLearnings
      recentLearnings == SelectIdx(cl, {i \in 1..Len(cl) : IsRecent(cl[i], t)})
      F[k \in 0..Len(recentLearnings)] ==
        IF k = 0 THEN [dk |-> m.semantic.domainKnowledge, uuid |-> u]
        ELSE
          LET prev == F[k-1]
              learning == recentLearnings[k]
              found == {i \in 1..Len(prev.dk) : SameConcept(prev.dk[i], learning)}
          IN
          IF found # {}
          THEN LET e == CHOOSE i \in found : \A j \in found : i <= j IN
               [prev EXCEPT
                  !.dk[e].confidence = FracMin(FracAdd(@, CONFIDENCE_STEP), One),
                  !.dk[e].lastUpdated = t]
          ELSE [prev EXCEPT
                  !.dk = Append(@,
                     [id |-> prev.uuid, relationships |-> <<>>, lastUpdated |-> t]
                       @@ Opt("concept", learning, "context")
                       @@ Opt("description", learning, "learning")
                       @@ Opt("confidence", learning, "confidence")),
                  !.uuid = @ + 1]
  IN Bind(F[Len(recentLearnings)], LAMBDA out :
       Bind([m EXCEPT !.semantic.domainKnowledge = out.dk], LAMBDA updated :
         updateConceptRelationships(updated, agentId, t, out.uuid)))

\* ---------------------------------------------------------------------------
\* applyMemoryDecay
\* ---------------------------------------------------------------------------
Stale(x, field, t, days) == Has(x, field) /\ t - x[field] > days

\* Mutation: a stale entry keeps its confidence.
DecayedNever(x, field, t, days) == x

Decayed(x, field, t, days) ==
  IF Stale(x, field, t, days)
  THEN [x EXCEPT !.confidence = FracMul(@, MEMORY_DECAY_FACTOR)]
  ELSE x

applyMemoryDecay(m, t, u) ==
  LET lp == m.longTerm.learningPatterns
      decayed == [i \in 1..Len(lp) |-> Decayed(lp[i], "lastUsed", t, PATTERN_DECAY_DAYS)]
      kept == SelectIdx(decayed,
                {i \in 1..Len(decayed) : FracLt(CONFIDENCE_FLOOR, decayed[i].confidence)})
      dk == m.semantic.domainKnowledge
  IN Done([m EXCEPT
             !.longTerm.learningPatterns = kept,
             !.semantic.domainKnowledge =
                [i \in 1..Len(dk) |-> Decayed(dk[i], "lastUpdated", t, NODE_DECAY_DAYS)]],
          u)

\* ---------------------------------------------------------------------------
\* consolidate: the four steps in order; an exception in one step ends the call.
\* "steps" lists the steps that were started.
\* ---------------------------------------------------------------------------
consolidate(m, agentId, t, u) ==
  Bind(consolidateShortToLong(m, agentId, t, u), LAMBDA s1 :
    IF s1.threw THEN s1 @@ [steps |-> <<"promote">>]
    ELSE Bind(extractPatternsFromEpisodic(s1.mem, t, s1.uuid), LAMBDA s2 :
      IF s2.threw THEN s2 @@ [steps |-> <<"promote", "extract">>]
      ELSE Bind(updateSemanticKnowledge(s2.mem, agentId, t, s2.uuid), LAMBDA s3 :
        IF s3.threw THEN s3 @@ [steps |-> <<"promote", "extract", "semantic">>]
        ELSE Bind(applyMemoryDecay(s3.mem, t, s3.uuid), LAMBDA s4 :
          s4 @@ [steps |-> <<"promote", "extract", "semantic", "decay">>]))))

\* ---------------------------------------------------------------------------
\* compressMemory: compressEpisodicMemory, mergeSemanticConcepts,
\* cleanupRelationships
\* ---------------------------------------------------------------------------
SUMMARY_CAP == Frac(9, 10)

\* Mutation: the confidence of a summary is not capped.
createInteractionSummaryUncapped(group) ==
  [ pattern |-> Field(group[1], "type") \o <<" ", "interactions", " ", "with", " ">>
                  \o Field(group[1], "outcome") \o <<" ", "outcome">>,
    confidence |-> Frac(Len(group), 10),
    frequency |-> Len(group) ]

createInteractionSummary(group) ==
  [ pattern |-> Field(group[1], "type") \o <<" ", "interactions", " ", "with", " ">>
                  \o Field(group[1], "outcome") \o <<" ", "outcome">>,
    confidence |-> FracMin(Frac(Len(group), 10), SUMMARY_CAP),
    frequency |-> Len(group) ]

compressEpisodicMemory(m, t, u) ==
  LET interactions == m.episodic.successfulInteractions
      keys == [i \in 1..Len(interactions) |-> InteractionKey(interactions[i])]
      groups == FirstKeys(keys)
      F[g \in 0..Len(groups)] ==
        IF g = 0 THEN [mem |-> m, uuid |-> u]
        ELSE
          LET prev == F[g-1]
              group == Members(interactions, keys, groups[g])
              summary == createInteractionSummary(group)
              si == prev.mem.episodic.successfulInteractions
          IN
          IF Len(group) > COMPRESS_MIN
          THEN [ mem |-> [prev.mem EXCEPT
                    !.episodic.successfulInteractions =
                       SelectIdx(si, {i \in 1..Len(si) : si[i] \notin Range(group)}),
                    !.episodic.contextualLearnings =
                       Append(@, [ id |-> prev.uuid, context |-> groups[g],
                                   learning |-> summary.pattern,
                                   confidence |-> summary.confidence,
                                   applications |-> Len(group), timestamp |-> t ])],
                 uuid |-> prev.uuid + 1 ]
          ELSE prev
      out == F[Len(groups)]
  IN Done(out.mem, out.uuid)

Reverse(s) == [i \in 1..Len(s) |-> s[Len(s) + 1 - i]]

RemoveAt(s, i) == SelectIdx(s, (1..Len(s)) \ {i})

mergeSemanticConcepts(m, u) ==
  LET concepts == m.semantic.domainKnowledge
      pairs == PairSeq(Len(concepts))
      scanThrows == \E k \in 1..Len(pairs) :
                      SimilarityThrows(concepts[pairs[k][1]], concepts[pairs[k][2]])
      toMerge == Reverse(SelectIdx(pairs,
                   {k \in 1..Len(pairs) :
                      FracLt(MERGE_SIMILARITY,
                             calculateConceptSimilarity(concepts[pairs[k][1]],
                                                        concepts[pairs[k][2]]))}))
      F[k \in 0..Len(toMerge)] ==
        IF k = 0 THEN [dk |-> concepts, threw |-> FALSE]
        ELSE
          LET prev == F[k-1]
              i == toMerge[k][1]
              j == toMerge[k][2]
          IN
          IF prev.threw THEN prev
          \* concepts[j] (or concepts[i]) is undefined once the array has shrunk
          ELSE IF i > Len(prev.dk) \/ j > Len(prev.dk) THEN [prev EXCEPT !.threw = TRUE]
          ELSE
            LET concept1 == prev.dk[i]
                concept2 == prev.dk[j]
                first == FracLe(concept2.confidence, concept1.confidence)
                ti == IF first THEN i ELSE j
                target == IF first THEN concept1 ELSE concept2
                source == IF first THEN concept2 ELSE concept1
                merged == [target EXCEPT
                             !.description = @ \o <<" ">> \o source.description,
                             !.confidence = FracMax(target.confidence, source.confidence),
                             !.relationships = @ \o source.relationships]
            IN [prev EXCEPT !.dk = RemoveAt([prev.dk EXCEPT ![ti] = merged], Max2(i, j))]
      out == F[Len(toMerge)]
  IN
  IF scanThrows THEN Threw(m, u)
  ELSE [mem |-> [m EXCEPT !.semantic.domainKnowledge = out.dk],
        uuid |-> u, threw |-> out.threw]

RelKey(rel) == <<rel.source, rel.target, rel.type>>
\* Mutation: the reverse key is the key itself.
RelReverseKeySame(rel) == <<rel.source, rel.target, rel.type>>

RelReverseKey(rel) == <<rel.target, rel.source, rel.type>>

cleanupRelationships(m, u) ==
  LET conceptIds == {m.semantic.domainKnowledge[i].id :
                       i \in 1..Len(m.semantic.domainKnowledge)}
      rels == m.semantic.relationships
      live == SelectIdx(rels, {i \in 1..Len(rels) :
                rels[i].source \in conceptIds /\ rels[i].target \in conceptIds})
      \* the Map keeps the first relationship of each key, in insertion order
      U[i \in 0..Len(live)] ==
        IF i = 0 THEN <<>>
        ELSE IF \E j \in 1..Len(U[i-1]) :
                  RelKey(U[i-1][j]) \in {RelKey(live[i]), RelReverseKey(live[i])}
             THEN U[i-1]
             ELSE Append(U[i-1], live[i])
      unique == U[Len(live)]
  IN Done([m EXCEPT !.semantic.relationships = unique], u)

compressMemory(m, t, u) ==
  Bind(compressEpisodicMemory(m, t, u), LAMBDA s1 :
    IF s1.threw THEN s1 @@ [steps |-> <<"episodic">>]
    ELSE Bind(mergeSemanticConcepts(s1.mem, s1.uuid), LAMBDA s2 :
      IF s2.threw THEN s2 @@ [steps |-> <<"episodic", "merge">>]
      ELSE Bind(cleanupRelationships(s2.mem, s2.uuid), LAMBDA s3 :
        s3 @@ [steps |-> <<"episodic", "merge", "cleanup">>])))

\* ---------------------------------------------------------------------------
\* retrieve: the per-tier gathering, then rankByRelevance
\* ---------------------------------------------------------------------------
TypeIs(q, t) == Has(q, "type") /\ q.type = t

FieldIs(x, f, v) == Has(x, f) /\ x[f] = v

\* !query.f || item.g === query.f
Matches(q, f, x, g) == ~Has(q, f) \/ FieldIs(x, g, q[f])

\* String.prototype.includes on strings given as atom sequences
Includes(s, sub) ==
  \E i \in 0..(Len(s) - Len(sub)) : SubSeq(s, i + 1, i + Len(sub)) = sub

Wrap(items, type) == [i \in 1..Len(items) |-> [data |-> items[i], type |-> type]]

Filter(s, P(_)) == SelectIdx(s, {i \in 1..Len(s) : P(s[i])})

retrieveShortTerm(m, q) ==
  LET st == m.shortTerm
      wm == st.workingMemory
  IN
    (IF TypeIs(q, "conversation_context") THEN Wrap(st.currentContext, "context") ELSE <<>>)
    \o (IF TypeIs(q, "active_lead") \/ Has(q, "leadId")
        THEN Wrap(Filter(st.activeLeads, LAMBDA lead : Matches(q, "leadId", lead, "id")),
                  "lead")
        ELSE <<>>)
    \o (IF TypeIs(q, "recent_action") \/ Has(q, "agentId")
        THEN Wrap(Filter(st.recentActions,
                         LAMBDA action : Matches(q, "agentId", action, "agentId")),
                  "action")
        ELSE <<>>)
    \o (IF Has(q, "type") /\ Has(wm, q.type)
        THEN << [data |-> wm[q.type], type |-> q.type] >>
        ELSE <<>>)

retrieveLongTerm(m, q) ==
  LET lt == m.longTerm IN
    (IF TypeIs(q, "customer_profile") \/ Has(q, "email")
     THEN Wrap(Filter(lt.customerProfiles,
                      LAMBDA profile : Matches(q, "email", profile, "email")),
               "customer_profile")
     ELSE <<>>)
    \o (IF TypeIs(q, "campaign") \/ Has(q, "campaignId") \/ Has(q, "id")
        THEN Wrap(Filter(lt.campaignHistory,
                         LAMBDA campaign :
                           /\ Matches(q, "campaignId", campaign, "id")
                           /\ Matches(q, "id", campaign, "id")
                           /\ Matches(q, "status", campaign, "status")),
                  "campaign")
        ELSE <<>>)
    \o (IF TypeIs(q, "performance_metric") \/ Has(q, "agentId")
        THEN Wrap(Filter(lt.performanceMetrics,
                         LAMBDA metric : Matches(q, "agentId", metric, "agentId")),
                  "performance_metric")
        ELSE <<>>)
    \o (IF TypeIs(q, "learning_pattern")
        THEN Wrap(lt.learningPatterns, "learning_pattern")
        ELSE <<>>)

retrieveEpisodic(m, q) ==
  LET ep == m.episodic IN
    (IF TypeIs(q, "successful_interaction") \/ TypeIs(q, "interaction")
     THEN Wrap(Filter(ep.successfulInteractions,
                      LAMBDA interaction :
                        /\ Matches(q, "agentId", interaction, "agentId")
                        /\ Matches(q, "customerId", interaction, "customerId")),
               "interaction")
     ELSE <<>>)
    \o (IF TypeIs(q, "problem_resolution")
        THEN Wrap(ep.problemResolutions, "problem_resolution")
        ELSE <<>>)
    \o (IF TypeIs(q, "decision_outcome") \/ TypeIs(q, "learning_outcome")
           \/ TypeIs(q, "action_log")
        THEN Wrap(Filter(ep.decisionOutcomes,
                         LAMBDA outcome : Matches(q, "agentId", outcome, "agentId")),
                  "decision_outcome")
        ELSE <<>>)
    \o (IF TypeIs(q, "contextual_learning")
        THEN Wrap(ep.contextualLearnings, "contextual_learning")
        ELSE <<>>)

RuleQueryTypes ==
  {"business_rule", "learning_pattern", "optimization_strategy", "engagement_strategy",
   "categorization_pattern", "successful_strategy"}

retrieveSemantic(m, q) ==
  LET sm == m.semantic IN
    (IF TypeIs(q, "domain_knowledge") \/ Has(q, "concept")
     THEN Wrap(Filter(sm.domainKnowledge,
                      LAMBDA knowledge :
                        ~Has(q, "concept") \/ Includes(knowledge.concept, q.concept)),
               "domain_knowledge")
     ELSE <<>>)
    \o (IF TypeIs(q, "relationship") THEN Wrap(sm.relationships, "relationship") ELSE <<>>)
    \o (IF TypeIs(q, "concept") THEN Wrap(sm.concepts, "concept") ELSE <<>>)
    \o (IF Has(q, "type") /\ q.type \in RuleQueryTypes
        THEN Wrap(Filter(sm.rules,
                         LAMBDA rule :
                           \/ (Has(rule, "name") /\ Includes(rule.name, <<q.type>>))
                           \/ (Has(rule, "pattern") /\ Includes(rule.pattern, <<q.type>>))),
                  q.type)
        ELSE <<>>)

Gather(m, tier, q) ==
  CASE tier = "short" -> retrieveShortTerm(m, q)
    [] tier = "long" -> retrieveLongTerm(m, q)
    [] tier = "episodic" -> retrieveEpisodic(m, q)
    [] tier = "semantic" -> retrieveSemantic(m, q)

\* ---------------------------------------------------------------------------
\* calculateRelevance, in thousandths
\* ---------------------------------------------------------------------------
BASE_SCORE == 500
TYPE_BONUS == 300
RECENCY_MAX == 200
AGENT_BONUS == 100
FIELD_BONUS == 100
SCORE_CAP == 1000

\* 0.2 * exp(-days / 30): each day multiplies by exp(-1/30) = 0.967...
RECURSIVE Recency(_)
Recency(days) ==
  IF days <= 0 THEN RECENCY_MAX ELSE (Recency(days - 1) * 967) \div 1000

TypeBonus(result, q) ==
  IF Opt("t", result, "type") = Opt("t", q, "type") THEN TYPE_BONUS ELSE 0

RecencyBonus(result, t) ==
  IF Has(result, "timestamp") THEN Max2(0, Recency(t - result.timestamp)) ELSE 0

AgentBonus(result, agentId) ==
  IF FieldIs(result, "agentId", agentId) THEN AGENT_BONUS ELSE 0

\* Mutation: at most one matching query field is rewarded.
FieldBonusCapped(result, q) ==
  Min2(FIELD_BONUS,
       FIELD_BONUS * Cardinality({k \in DOMAIN q :
                       Has(result, "data") /\ FieldIs(result.data, k, q[k])}))

FieldBonus(result, q) ==
  FIELD_BONUS * Cardinality({k \in DOMAIN q :
                   Has(result, "data") /\ FieldIs(result.data, k, q[k])})

calculateRelevance(result, q, agentId, t) ==
  Min2(BASE_SCORE + TypeBonus(result, q) + RecencyBonus(result, t)
         + AgentBonus(result, agentId) + FieldBonus(result, q),
       SCORE_CAP)

\* Mutation: the comparator is a.relevanceScore - b.relevanceScore.
rankByRelevanceAscending(results, q, agentId, t) ==
  Bind([i \in 1..Len(results) |->
          results[i] @@
            [relevanceScore |-> calculateRelevance(results[i], q, agentId, t)]],
       LAMBDA scored :
         Take(SortDesc(scored, [i \in 1..Len(scored) |-> 0 - scored[i].relevanceScore]),
              RESULT_LIMIT))

rankByRelevance(results, q, agentId, t) ==
  Bind([i \in 1..Len(results) |->
          results[i] @@
            [relevanceScore |-> calculateRelevance(results[i], q, agentId, t)]],
       LAMBDA scored :
         Take(SortDesc(scored, [i \in 1..Len(scored) |-> scored[i].relevanceScore]),
              RESULT_LIMIT))

retrieve(m, tier, q, agentId, t) ==
  Bind(Gather(m, tier, q), LAMBDA results : rankByRelevance(results, q, agentId, t))

\* ---------------------------------------------------------------------------
\* store(): build the memory item, place it, consolidate when shouldConsolidate
\* ---------------------------------------------------------------------------
\* { id: uuidv4(), agentId, timestamp, ...data }: the caller's fields win
MemoryItem(arg, agentId, t, u) ==
  arg @@ [id |-> u, agentId |-> agentId, timestamp |-> t]

store(m, agentId, tier, arg, t, u) ==
  Bind(Place(m, tier, MemoryItem(arg, agentId, t, u)), LAMBDA placed :
    IF shouldConsolidate(placed)
    THEN Bind(consolidate(placed, agentId, t, u + 1), LAMBDA c :
           [mem |-> c.mem, placed |-> placed, consolidations |-> 1,
            steps |-> c.steps, threw |-> c.threw, uuid |-> c.uuid])
    ELSE [mem |-> placed, placed |-> placed, consolidations |-> 0,
          steps |-> <<>>, threw |-> FALSE, uuid |-> u + 1])

\* ---------------------------------------------------------------------------
\* The agents and the orchestrator's map of them (ids and aliases)
\* ---------------------------------------------------------------------------
AgentIds == {"agent-1", "agent-2", "agent-3"}

\* Who calls into one MemoryManager: two request handlers and the
\* orchestrator's cleanup timer.
Requests == {"request-1", "request-2"}
Callers == Requests \cup {"timer"}

Self == "agent-1"

\* A map key as atoms; an alias ends in "_agent", a uuid does not contain it.
AgentKeys ==
  [ i \in 1..6 |->
      CASE i = 1 -> [key |-> <<"agent-1">>, agent |-> "agent-1"]
        [] i = 2 -> [key |-> <<"triage", "_agent">>, agent |-> "agent-1"]
        [] i = 3 -> [key |-> <<"agent-2">>, agent |-> "agent-2"]
        [] i = 4 -> [key |-> <<"engagement", "_agent">>, agent |-> "agent-2"]
        [] i = 5 -> [key |-> <<"agent-3">>, agent |-> "agent-3"]
        [] i = 6 -> [key |-> <<"optimization", "_agent">>, agent |-> "agent-3"] ]

\* ---------------------------------------------------------------------------
\* State machine
\* ---------------------------------------------------------------------------
Init ==
  /\ memory = [a \in AgentIds |-> initializeMemory]
  /\ now = 0
  /\ nextOid = 1
  /\ lastOp = [op |-> "init"]
  /\ history = <<>>
  /\ pending = [c \in Callers |-> "idle"]
  /\ mcp = [status |-> "idle"]

\* BaseAgent.storeMemory -> MemoryManager.store
Store(a, tier, type, payload) ==
  \E data \in {payload @@ [oid |-> nextOid]} :
  \E r \in {store(memory[a], a, tier, [type |-> type, data |-> data], now, nextOid + 1)} :
  /\ memory' = [memory EXCEPT ![a] = r.mem]
  /\ nextOid' = r.uuid
  /\ lastOp' = [op |-> "store", agent |-> a, tier |-> tier, type |-> type, data |-> data,
                before |-> memory[a], placed |-> r.placed,
                consolidations |-> r.consolidations, steps |-> r.steps,
                threw |-> r.threw]
  /\ history' = Append(history, [agent |-> a, tier |-> tier, type |-> type,
                                 data |-> data])
  /\ UNCHANGED <<now, pending, mcp>>

\* BaseAgent.consolidateMemory -> MemoryManager.consolidate
Consolidate(a) ==
  \E r \in {consolidate(memory[a], a, now, nextOid)} :
  /\ memory' = [memory EXCEPT ![a] = r.mem]
  /\ nextOid' = r.uuid
  /\ lastOp' = [op |-> "consolidate", agent |-> a, before |-> memory[a],
                steps |-> r.steps, threw |-> r.threw]
  /\ UNCHANGED <<now, history, pending, mcp>>

\* MemoryManager.compressMemory
Compress(a) ==
  \E r \in {compressMemory(memory[a], now, nextOid)} :
  /\ memory' = [memory EXCEPT ![a] = r.mem]
  /\ nextOid' = r.uuid
  /\ lastOp' = [op |-> "compress", agent |-> a, before |-> memory[a],
                steps |-> r.steps, threw |-> r.threw]
  /\ UNCHANGED <<now, history, pending, mcp>>

\* BaseAgent.retrieveMemory -> MemoryManager.retrieve
Retrieve(a, tier, q) ==
  /\ lastOp' = [op |-> "retrieve", agent |-> a, tier |-> tier, query |-> q,
                gathered |-> Gather(memory[a], tier, q),
                result |-> retrieve(memory[a], tier, q, a, now)]
  /\ UNCHANGED <<memory, now, nextOid, history, pending, mcp>>

\* The clock advances.
Tick(days) ==
  /\ now + days <= MaxNow
  /\ now' = now + days
  /\ lastOp' = [op |-> "tick"]
  /\ UNCHANGED <<memory, nextOid, history, pending, mcp>>

\* ---------------------------------------------------------------------------
\* SpecLeads: one agent stores leads under both lead tags and queries them
\* ---------------------------------------------------------------------------
LeadTags == {"active_lead", "processed_lead"}
LeadScores == {1, 2, 3}
LeadQueries ==
  { [type |-> "active_lead"],
    [type |-> "active_lead", score |-> 2],
    [leadId |-> 7, score |-> 3] }

StoreLead ==
  /\ Len(history) < MaxStores
  /\ \E tag \in LeadTags, sc \in LeadScores :
       /\ tag = "processed_lead" => sc = 2
       /\ Store(Self, "short", tag, [id |-> 7, score |-> sc])

RetrieveLeads == \E q \in LeadQueries : Retrieve(Self, "short", q)

NextLeads == StoreLead \/ RetrieveLeads

SpecLeads == Init /\ [][NextLeads]_vars

\* ---------------------------------------------------------------------------
\* C1: after each lead store, activeLeads holds at most MAX_SHORT_TERM_ITEMS
\* entries and they are exactly the MAX highest-score leads stored so far, a
\* lead stored earlier winning over a later one of equal score.
\* ---------------------------------------------------------------------------
LeadsStored ==
  {history[i].data : i \in {j \in 1..Len(history) :
      history[j].agent = Self /\ history[j].tier = "short" /\ history[j].type \in LeadTags}}

LeadRank(l) ==
  1 + Cardinality({x \in LeadsStored :
        x.score > l.score \/ (x.score = l.score /\ x.oid < l.oid)})

C1_TopLeadsRetained ==
  LET al == memory[Self].shortTerm.activeLeads IN
  /\ Len(al) <= MAX_SHORT_TERM_ITEMS
  /\ Cardinality(Range(al)) = Len(al)
  /\ Range(al) = {l \in LeadsStored : LeadRank(l) <= MAX_SHORT_TERM_ITEMS}

\* An overflow has happened and the lead evicted last tied with a retained one.
C1_Witness ==
  LET al == memory[Self].shortTerm.activeLeads IN
  /\ lastOp.op = "store"
  /\ Cardinality(LeadsStored) > MAX_SHORT_TERM_ITEMS + 1
  /\ \E x \in LeadsStored \ Range(al) : \E y \in Range(al) : x.score = y.score
  /\ \E x \in LeadsStored \ Range(al) : \E y \in Range(al) : x.oid < y.oid

\* ---------------------------------------------------------------------------
\* C8: retrieve() returns at most RESULT_LIMIT items, in non-increasing order
\* of relevanceScore, items of equal score in the order they were gathered,
\* and the list does not depend on when the call is made.
\* ---------------------------------------------------------------------------
GatheredAt(g, r) ==
  CHOOSE k \in 1..Len(g) : g[k] = [data |-> r.data, type |-> r.type]

C8_RankedResult ==
  lastOp.op = "retrieve" =>
    LET res == lastOp.result
        g == lastOp.gathered
    IN
    /\ Len(res) <= RESULT_LIMIT
    /\ Len(res) = Min2(Len(g), RESULT_LIMIT)
    /\ \A i \in 1..Len(res) :
         \E k \in 1..Len(g) : g[k] = [data |-> res[i].data, type |-> res[i].type]
    /\ \A i, j \in 1..Len(res) :
         i < j =>
           /\ res[i].relevanceScore >= res[j].relevanceScore
           /\ res[i].relevanceScore = res[j].relevanceScore
                => GatheredAt(g, res[i]) < GatheredAt(g, res[j])
    /\ \A t \in {now, MaxNow} :
         retrieve(memory[lastOp.agent], lastOp.tier, lastOp.query, lastOp.agent, t) = res

\* More candidates than the limit, with both tied and distinct scores returned.
C8_Witness ==
  /\ lastOp.op = "retrieve"
  /\ Len(lastOp.gathered) > RESULT_LIMIT
  /\ \E i, j \in 1..Len(lastOp.gathered) :
       /\ i < j
       /\ calculateRelevance(lastOp.gathered[i], lastOp.query, Self, now)
            < calculateRelevance(lastOp.gathered[j], lastOp.query, Self, now)
  /\ \E i \in 1..(Len(lastOp.result) - 1) :
       lastOp.result[i].relevanceScore = lastOp.result[i+1].relevanceScore

\* ---------------------------------------------------------------------------
\* SpecShort: conversation contexts and recent actions are stored, and the
\* agent's memory is consolidated and compressed at any time
\* ---------------------------------------------------------------------------
ContextPriorities == {3, 7, 9}
ActionTimes == {10, 20}

StoreContext ==
  /\ Len(history) < MaxStores
  /\ \E pr \in ContextPriorities :
       Store(Self, "short", "conversation_context",
             [leadId |-> 1, priority |-> pr, messages |-> <<>>])

StoreAction ==
  /\ Len(history) < MaxStores
  /\ \E ts \in ActionTimes :
       Store(Self, "short", "recent_action", [agentId |-> Self, timestamp |-> ts])

ConsolidateSelf == Consolidate(Self)

CompressSelf == Compress(Self)

NextShort == StoreContext \/ StoreAction \/ ConsolidateSelf \/ CompressSelf

SpecShort == Init /\ [][NextShort]_vars

\* ---------------------------------------------------------------------------
\* C2: the three short-term lists never exceed MAX_SHORT_TERM_ITEMS; a write
\* that overflows currentContext evicts only entries of priority at most that
\* of every entry kept, and one that overflows recentActions evicts only
\* entries whose timestamp is at most that of every entry kept.
\* ---------------------------------------------------------------------------
EvictsLowest(before, placed, data, field) ==
  LET pre == Range(before) \cup {data}
      kept == Range(placed)
  IN Len(before) + 1 > MAX_SHORT_TERM_ITEMS =>
       /\ Len(placed) = MAX_SHORT_TERM_ITEMS
       /\ kept \subseteq pre
       /\ Cardinality(kept) = MAX_SHORT_TERM_ITEMS
       /\ \A e \in pre \ kept : \A k \in kept : e[field] <= k[field]

C2_ShortListsBounded ==
  /\ \A a \in AgentIds :
       /\ Len(memory[a].shortTerm.currentContext) <= MAX_SHORT_TERM_ITEMS
       /\ Len(memory[a].shortTerm.activeLeads) <= MAX_SHORT_TERM_ITEMS
       /\ Len(memory[a].shortTerm.recentActions) <= MAX_SHORT_TERM_ITEMS
  /\ (lastOp.op = "store" /\ lastOp.tier = "short"
        /\ lastOp.type = "conversation_context") =>
       EvictsLowest(lastOp.before.shortTerm.currentContext,
                    lastOp.placed.shortTerm.currentContext, lastOp.data, "priority")
  /\ (lastOp.op = "store" /\ lastOp.tier = "short" /\ lastOp.type = "recent_action") =>
       EvictsLowest(lastOp.before.shortTerm.recentActions,
                    lastOp.placed.shortTerm.recentActions, lastOp.data, "timestamp")

\* A context store overflowed a full list and evicted an entry stored earlier.
C2_Witness ==
  /\ lastOp.op = "store"
  /\ lastOp.type = "conversation_context"
  /\ Len(lastOp.before.shortTerm.currentContext) = MAX_SHORT_TERM_ITEMS
  /\ lastOp.data \in Range(lastOp.placed.shortTerm.currentContext)
  /\ Len(memory[Self].shortTerm.recentActions) > 0

\* ---------------------------------------------------------------------------
\* SpecWorking: ad-hoc tags go to working memory while contexts and leads
\* fill the lists and trigger consolidation
\* ---------------------------------------------------------------------------
WorkingTags == {"scheduled_followup", "campaign"}

StoreWorking ==
  /\ Len(history) < MaxStores
  /\ \E tag \in WorkingTags : Store(Self, "short", tag, [status |-> "scheduled"])

StoreFiller ==
  /\ Len(history) < MaxStores
  /\ \/ Store(Self, "short", "conversation_context",
              [leadId |-> 1, priority |-> 3, messages |-> <<>>])
     \/ Store(Self, "short", "active_lead", [id |-> 7, score |-> 1])

NextWorking == StoreWorking \/ StoreFiller \/ ConsolidateSelf

SpecWorking == Init /\ [][NextWorking]_vars

\* ---------------------------------------------------------------------------
\* C5: for a tag T outside the short-term mapping table, workingMemory[T] is
\* the payload of the latest store('short') under T, no earlier payload
\* stored under T is held anywhere in the memory, and such a store leaves
\* currentContext, activeLeads and recentActions as they were.
\* ---------------------------------------------------------------------------
HeldPayloads(m) ==
  UNION {Range(m[TierField(tier)][l]) : <<tier, l>> \in
           {<<t2, l2>> \in Tiers \X {"currentContext", "activeLeads", "recentActions",
              "customerProfiles", "campaignHistory", "performanceMetrics",
              "learningPatterns", "successfulInteractions", "problemResolutions",
              "decisionOutcomes", "contextualLearnings", "domainKnowledge",
              "relationships", "concepts", "rules"} : l2 \in ListFields(t2)}}
    \cup {m.shortTerm.workingMemory[k] : k \in DOMAIN m.shortTerm.workingMemory}

WorkingStores(a, T) ==
  SelectIdx(history, {i \in 1..Len(history) :
     history[i].agent = a /\ history[i].tier = "short" /\ history[i].type = T})

C5_WorkingMemoryLastWrite ==
  /\ \A T \in WorkingTags :
       LET ws == WorkingStores(Self, T)
           wm == memory[Self].shortTerm.workingMemory
       IN /\ Has(wm, T) <=> ws # <<>>
          /\ ws # <<>> =>
               /\ wm[T] = ws[Len(ws)].data
               /\ \A i \in 1..(Len(ws) - 1) : ws[i].data \notin HeldPayloads(memory[Self])
  /\ (lastOp.op = "store" /\ lastOp.tier = "short" /\ lastOp.type \notin ShortTags) =>
       /\ memory[Self].shortTerm.currentContext = lastOp.before.shortTerm.currentContext
       /\ memory[Self].shortTerm.activeLeads = lastOp.before.shortTerm.activeLeads
       /\ memory[Self].shortTerm.recentActions = lastOp.before.shortTerm.recentActions

\* A slot is overwritten by a store that also ran a consolidation.
C5_Witness ==
  /\ lastOp.op = "store"
  /\ lastOp.type \in WorkingTags
  /\ Len(WorkingStores(Self, lastOp.type)) > 1
  /\ lastOp.consolidations = 1
  /\ Len(memory[Self].shortTerm.currentContext) > 0

\* ---------------------------------------------------------------------------
\* SpecTrigger: one agent stores into all four tiers
\* ---------------------------------------------------------------------------
TriggerInputs ==
  { [tier |-> "short", type |-> "conversation_context",
     payload |-> [leadId |-> 1, priority |-> 9, messages |-> <<>>]],
    [tier |-> "short", type |-> "active_lead", payload |-> [id |-> 7, score |-> 2]],
    [tier |-> "short", type |-> "scheduled_followup", payload |-> [status |-> "scheduled"]],
    [tier |-> "long", type |-> "customer_profile", payload |-> [leadId |-> 1]],
    [tier |-> "episodic", type |-> "interaction",
     payload |-> [type |-> "email", outcome |-> "positive"]],
    [tier |-> "semantic", type |-> "shared_knowledge", payload |-> [name |-> "tip"]] }

StoreAny ==
  /\ Len(history) < MaxStores
  /\ \E in \in TriggerInputs : Store(Self, in.tier, in.type, in.payload)

NextTrigger == StoreAny \/ RetrieveLeads

SpecTrigger == Init /\ [][NextTrigger]_vars

\* ---------------------------------------------------------------------------
\* C3: a store() call runs consolidate() once when, after placement and
\* enforcement, the three short-term lists together hold more than
\* CONSOLIDATION_THRESHOLD entries, and does not run it otherwise; this
\* holds for every tier and for tags the tier does not recognise.
\* ---------------------------------------------------------------------------
ListSum(m) ==
  Len(m.shortTerm.currentContext) + Len(m.shortTerm.activeLeads)
    + Len(m.shortTerm.recentActions)

C3_ConsolidationTrigger ==
  lastOp.op = "store" =>
    /\ lastOp.consolidations \in {0, 1}
    /\ lastOp.consolidations = 1 <=> ListSum(lastOp.placed) > CONSOLIDATION_THRESHOLD
    /\ lastOp.consolidations = 1 =>
         lastOp.steps = <<"promote", "extract", "semantic", "decay">>
    /\ lastOp.consolidations = 0 =>
         lastOp.steps = <<>> /\ memory[lastOp.agent] = lastOp.placed

\* A store into another tier under an unrecognised tag places nothing and
\* still consolidates.
C3_Witness ==
  /\ lastOp.op = "store"
  /\ lastOp.tier = "semantic"
  /\ lastOp.placed = lastOp.before
  /\ lastOp.consolidations = 1

\* ---------------------------------------------------------------------------
\* SpecRoute: every tag of every tier is stored and then queried by its tag
\* ---------------------------------------------------------------------------
RouteInputs ==
  { [tier |-> "short", type |-> "conversation_context",
     payload |-> [leadId |-> 1, priority |-> 3, messages |-> <<>>]],
    [tier |-> "short", type |-> "active_lead", payload |-> [id |-> 7, score |-> 2]],
    [tier |-> "short", type |-> "processed_lead", payload |-> [id |-> 8, score |-> 1]],
    [tier |-> "short", type |-> "recent_action", payload |-> [timestamp |-> 10]],
    [tier |-> "short", type |-> "scheduled_followup", payload |-> [status |-> "scheduled"]],
    [tier |-> "long", type |-> "customer_profile", payload |-> [email |-> "a@x"]],
    [tier |-> "long", type |-> "campaign", payload |-> [status |-> "active"]],
    [tier |-> "long", type |-> "performance_metric", payload |-> [value |-> 5]],
    [tier |-> "long", type |-> "learning_pattern", payload |-> [pattern |-> <<"p">>]],
    [tier |-> "long", type |-> "interaction", payload |-> [outcome |-> "positive"]],
    [tier |-> "episodic", type |-> "interaction",
     payload |-> [type |-> "email", outcome |-> "positive"]],
    [tier |-> "episodic", type |-> "successful_interaction",
     payload |-> [type |-> "call", outcome |-> "conversion"]],
    [tier |-> "episodic", type |-> "problem_resolution", payload |-> [problem |-> "p"]],
    [tier |-> "episodic", type |-> "decision_outcome",
     payload |-> [decision |-> "route", success |-> TRUE]],
    [tier |-> "episodic", type |-> "learning_outcome",
     payload |-> [actionType |-> "score", success |-> FALSE]],
    [tier |-> "episodic", type |-> "contextual_learning", payload |-> [note |-> "n"]],
    [tier |-> "episodic", type |-> "action_log", payload |-> [actionType |-> "score"]],
    [tier |-> "semantic", type |-> "domain_knowledge",
     payload |-> [concept |-> <<"lead", " ", "scoring">>]],
    [tier |-> "semantic", type |-> "relationship", payload |-> [from |-> "a", to |-> "b"]],
    [tier |-> "semantic", type |-> "concept", payload |-> [name |-> <<"lead">>]],
    [tier |-> "semantic", type |-> "business_rule",
     payload |-> [name |-> <<"business_rule", "_", "vip">>]],
    [tier |-> "semantic", type |-> "learning_pattern",
     payload |-> [pattern |-> <<"email", "_", "positive">>]],
    [tier |-> "semantic", type |-> "optimization_strategy",
     payload |-> [name |-> <<"budget", " ", "shift">>]],
    [tier |-> "semantic", type |-> "engagement_strategy",
     payload |-> [pattern |-> <<"engagement_strategy">>]],
    [tier |-> "semantic", type |-> "shared_knowledge", payload |-> [name |-> <<"tip">>]] }

StoreRouted ==
  /\ Len(history) < MaxRouteStores
  /\ \E in \in RouteInputs : Store(Self, in.tier, in.type, in.payload)

\* The caller queries the tier it has just written, by the tag it used.
RetrieveStored ==
  /\ lastOp.op = "store"
  /\ Retrieve(lastOp.agent, lastOp.tier, [type |-> lastOp.type])

NextRoute == StoreRouted \/ RetrieveStored

SpecRoute == Init /\ [][NextRoute]_vars

\* The write mapping tables of section 4.2: <<tier, tag>> -> sub-collection
RouteTable ==
  [ k \in
      ({"short"} \X ShortTags)
      \cup ({"long"} \X {"customer_profile", "campaign", "performance_metric",
                         "learning_pattern"})
      \cup ({"episodic"} \X {"interaction", "successful_interaction", "problem_resolution",
                             "decision_outcome", "learning_outcome",
                             "contextual_learning"})
      \cup ({"semantic"} \X {"domain_knowledge", "relationship", "concept",
                             "business_rule", "learning_pattern",
                             "optimization_strategy", "engagement_strategy"})
    |->
      CASE k[2] = "conversation_context" -> "currentContext"
        [] k[2] \in {"active_lead", "processed_lead"} -> "activeLeads"
        [] k[2] = "recent_action" -> "recentActions"
        [] k[2] = "customer_profile" -> "customerProfiles"
        [] k[2] = "campaign" -> "campaignHistory"
        [] k[2] = "performance_metric" -> "performanceMetrics"
        [] k[2] = "learning_pattern" /\ k[1] = "long" -> "learningPatterns"
        [] k[2] \in {"interaction", "successful_interaction"} -> "successfulInteractions"
        [] k[2] = "problem_resolution" -> "problemResolutions"
        [] k[2] \in {"decision_outcome", "learning_outcome"} -> "decisionOutcomes"
        [] k[2] = "contextual_learning" -> "contextualLearnings"
        [] k[2] = "domain_knowledge" -> "domainKnowledge"
        [] k[2] = "relationship" -> "relationships"
        [] k[2] = "concept" -> "concepts"
        [] OTHER -> "rules" ]

\* ---------------------------------------------------------------------------
\* C4: when the call triggers no consolidation, a store under a tag of the
\* tier's mapping table appends the payload to the one mapped sub-collection
\* and leaves every other sub-collection of every tier as it was; a tag the long-term, episodic or
\* semantic tier does not recognise changes nothing; no error is reported.
\* ---------------------------------------------------------------------------
C4_RoutingFrame ==
  (lastOp.op = "store" /\ lastOp.consolidations = 0) =>
    LET m == memory[lastOp.agent]
        b == lastOp.before
        k == <<lastOp.tier, lastOp.type>>
        tf == TierField(lastOp.tier)
    IN /\ ~lastOp.threw
       /\ \A a \in AgentIds \ {lastOp.agent} : memory[a] = initializeMemory
       /\ k \in DOMAIN RouteTable =>
            /\ \A t2 \in Tiers : \A l \in ListFields(t2) :
                 <<t2, l>> # <<lastOp.tier, RouteTable[k]>> =>
                   m[TierField(t2)][l] = b[TierField(t2)][l]
            /\ m.shortTerm.workingMemory = b.shortTerm.workingMemory
            /\ m[tf][RouteTable[k]] = Append(b[tf][RouteTable[k]], lastOp.data)
       /\ (k \notin DOMAIN RouteTable /\ lastOp.tier # "short") => m = b

\* A second store lands in a list of another tier and leaves the first
\* store's list alone.
C4_Witness ==
  /\ lastOp.op = "store"
  /\ lastOp.consolidations = 0
  /\ Len(history) = 2
  /\ history[1].tier = "short" /\ history[1].type = "active_lead"
  /\ history[2].tier = "long" /\ history[2].type = "campaign"
  /\ Len(memory[Self].longTerm.campaignHistory) = 1

\* ---------------------------------------------------------------------------
\* C7 (as stated): for every tag T of a tier's write mapping table, after
\* store(tier, {type: T, data: p}) the call retrieve(tier, {type: T}) returns
\* an item whose data is p, when the target list holds at most RESULT_LIMIT
\* entries and nothing removed p.
\* ---------------------------------------------------------------------------
C7_StoreThenRetrieve ==
  ( /\ lastOp.op = "store"
    /\ lastOp.consolidations = 0
    /\ <<lastOp.tier, lastOp.type>> \in DOMAIN RouteTable
    /\ Len(memory[lastOp.agent][TierField(lastOp.tier)]
                 [RouteTable[<<lastOp.tier, lastOp.type>>]]) <= RESULT_LIMIT ) =>
    \E r \in Range(retrieve(memory[lastOp.agent], lastOp.tier, [type |-> lastOp.type],
                            lastOp.agent, now)) :
       r.data = lastOp.data

\* ---------------------------------------------------------------------------
\* C9 (as stated): every candidate returned for a query {type: T} carries the
\* type bonus: its score is at least BASE_SCORE + TYPE_BONUS.
\* ---------------------------------------------------------------------------
C9_TypeBonusAwarded ==
  lastOp.op = "retrieve" =>
    \A r \in Range(lastOp.result) : r.relevanceScore >= BASE_SCORE + TYPE_BONUS

\* ---------------------------------------------------------------------------
\* C10 (as stated): every record stored on an instance and returned by
\* retrieve() on the same instance has the owning-agent bonus in its score.
\* ---------------------------------------------------------------------------
C10_OwnerBonusAwarded ==
  lastOp.op = "retrieve" =>
    \A r \in Range(lastOp.result) :
      r.relevanceScore =
        Min2(BASE_SCORE + TypeBonus(r, lastOp.query) + RecencyBonus(r, now)
               + AGENT_BONUS + FieldBonus(r, lastOp.query),
             SCORE_CAP)

\* ---------------------------------------------------------------------------
\* The orchestrator: MEMORY_UPDATE handling and the periodic memory cleanup
\* ---------------------------------------------------------------------------
IsAlias(key) == Includes(key, <<"_agent">>)

\* agents.forEach(...) of broadcastSemanticUpdate, from map entry i on; mem is
\* the memory of all agents, calls the store() calls made so far
RECURSIVE broadcastSemanticUpdate(_, _, _, _, _, _)
broadcastSemanticUpdate(mem, data, t, u, i, calls) ==
  IF i > Len(AgentKeys) THEN [mem |-> mem, uuid |-> u, calls |-> calls]
  ELSE IF ~IsAlias(AgentKeys[i].key)
  THEN broadcastSemanticUpdate(mem, data, t, u, i + 1, calls)
  ELSE Bind(store(mem[AgentKeys[i].agent], AgentKeys[i].agent, "semantic",
                  [type |-> "shared_knowledge", data |-> data, sharedBy |-> "system",
                   timestamp |-> t],
                  t, u),
            LAMBDA r :
              broadcastSemanticUpdate(
                [mem EXCEPT ![AgentKeys[i].agent] = r.mem], data, t, r.uuid, i + 1,
                Append(calls, [agent |-> AgentKeys[i].agent, tier |-> "semantic",
                               type |-> "shared_knowledge", data |-> data])))

handleMemoryUpdate(mem, memoryType, data, t, u) ==
  IF memoryType = "semantic"
  THEN broadcastSemanticUpdate(mem, data, t, u, 1, <<>>)
  ELSE [mem |-> mem, uuid |-> u, calls |-> <<>>]

\* for (const [agentId, agent] of this.agents) of performMemoryCleanup
RECURSIVE performMemoryCleanup(_, _, _, _)
performMemoryCleanup(mem, t, u, i) ==
  IF i > Len(AgentKeys) THEN [mem |-> mem, uuid |-> u]
  ELSE IF IsAlias(AgentKeys[i].key) THEN performMemoryCleanup(mem, t, u, i + 1)
  ELSE Bind(consolidate(mem[AgentKeys[i].agent], AgentKeys[i].agent, t, u),
            LAMBDA r :
              performMemoryCleanup([mem EXCEPT ![AgentKeys[i].agent] = r.mem],
                                   t, r.uuid, i + 1))

MemoryTypes == {"semantic", "episodic"}
Insights == {[insight |-> "tip"], [insight |-> "trend"]}

HandleMemoryUpdate ==
  /\ Len(history) < MaxStores
  /\ \E memoryType \in MemoryTypes :
     \E data \in Insights :
     \E r \in {handleMemoryUpdate(memory, memoryType, data, now, nextOid)} :
       /\ memory' = r.mem
       /\ nextOid' = r.uuid
       /\ lastOp' = [op |-> "memory_update", memoryType |-> memoryType, data |-> data,
                     before |-> memory]
       /\ history' = history \o r.calls
       /\ UNCHANGED <<now, pending, mcp>>

PerformMemoryCleanup ==
  \E r \in {performMemoryCleanup(memory, now, nextOid, 1)} :
    /\ memory' = r.mem
    /\ nextOid' = r.uuid
    /\ lastOp' = [op |-> "cleanup", before |-> memory]
    /\ UNCHANGED <<now, history, pending, mcp>>

\* The agents' own writes between the orchestrator's steps
StoreByAgent ==
  /\ Len(history) < MaxStores
  /\ \E a \in AgentIds :
       \/ Store(a, "short", "conversation_context",
                [leadId |-> 1, priority |-> 9, messages |-> <<>>])
       \/ /\ a = Self
          /\ Store(a, "semantic", "domain_knowledge", [concept |-> <<"lead">>])

NextOrch == HandleMemoryUpdate \/ PerformMemoryCleanup \/ StoreByAgent

SpecOrch == Init /\ [][NextOrch]_vars

\* ---------------------------------------------------------------------------
\* C6 (as stated): after the orchestrator has handled a MEMORY_UPDATE whose
\* memoryType is 'semantic', some semantic sub-collection of every agent's
\* memory contains the shared data.
\* ---------------------------------------------------------------------------
C6_SharedKnowledgeReplicated ==
  (lastOp.op = "memory_update" /\ lastOp.memoryType = "semantic") =>
    \A a \in AgentIds :
      \E l \in ListFields("semantic") :
        \E x \in Range(memory[a].semantic[l]) :
          x = lastOp.data \/ (Has(x, "data") /\ x.data = lastOp.data)

\* ---------------------------------------------------------------------------
\* SpecScore: campaigns and a working-memory note are stored and queried with
\* one to four query fields while the clock advances
\* ---------------------------------------------------------------------------
ScoreInputs ==
  { [tier |-> "long", type |-> "campaign",
     payload |-> [id |-> 1, status |-> "active", budget |-> 5]],
    [tier |-> "long", type |-> "campaign",
     payload |-> [id |-> 2, status |-> "paused", budget |-> 5]],
    [tier |-> "short", type |-> "note",
     payload |-> [type |-> "note", status |-> "active"]] }

ScoreQueries ==
  { [tier |-> "long", q |-> [type |-> "campaign"]],
    [tier |-> "long", q |-> [type |-> "campaign", status |-> "active"]],
    [tier |-> "long", q |-> [type |-> "campaign", id |-> 1, status |-> "active",
                             budget |-> 5]],
    [tier |-> "long", q |-> [campaignId |-> 1, budget |-> 5]],
    [tier |-> "short", q |-> [type |-> "note", status |-> "active"]] }

StoreScored ==
  /\ Len(history) < MaxRouteStores
  /\ \E in \in ScoreInputs : Store(Self, in.tier, in.type, in.payload)

RetrieveScored == \E sq \in ScoreQueries : Retrieve(Self, sq.tier, sq.q)

MonthPasses == Tick(35)

NextScore == StoreScored \/ RetrieveScored \/ MonthPasses

SpecScore == Init /\ [][NextScore]_vars

\* Number of query fields whose value equals the same-named payload field
MatchingFields(r, q) ==
  Cardinality({k \in DOMAIN q : k \in DOMAIN r.data /\ r.data[k] = q[k]})

\* ---------------------------------------------------------------------------
\* C11: the relevanceScore of every returned item lies between 0.5 and 1.0
\* and equals min(1.0, 0.5 + type bonus + recency bonus + owner bonus
\* + 0.1 * n), n being the number of query fields whose value equals the
\* same-named field of the payload, uncapped before the final clamp.
\* ---------------------------------------------------------------------------
C11_ScoreFormula ==
  lastOp.op = "retrieve" =>
    \A r \in Range(lastOp.result) :
      LET type == IF "type" \in DOMAIN lastOp.query /\ r.type = lastOp.query.type
                  THEN 300 ELSE 0
          recency == IF "timestamp" \in DOMAIN r THEN Recency(now - r.timestamp) ELSE 0
          owner == IF "agentId" \in DOMAIN r /\ r.agentId = lastOp.agent
                   THEN 100 ELSE 0
          raw == 500 + type + recency + owner + 100 * MatchingFields(r, lastOp.query)
      IN /\ r.relevanceScore >= 500
         /\ r.relevanceScore <= 1000
         /\ r.relevanceScore = IF raw > 1000 THEN 1000 ELSE raw

\* Three matching fields and the type bonus: 1.1 before the clamp, 1.0 after.
C11_Witness ==
  /\ lastOp.op = "retrieve"
  /\ \E r \in Range(lastOp.result) :
       MatchingFields(r, lastOp.query) = 3 /\ r.type = "campaign"
                                           /\ r.relevanceScore = 1000
  /\ now > 0

\* ---------------------------------------------------------------------------
\* SpecPromote: conversation contexts of low and high priority, with short,
\* long and missing message lists, are stored and consolidated
\* ---------------------------------------------------------------------------
LongChat == [i \in 1..(MESSAGES_LIMIT + 1) |-> [id |-> i, content |-> "hi"]]

PromoteContexts ==
  { [priority |-> 3, messages |-> <<>>],
    [priority |-> 9, messages |-> <<>>],
    [priority |-> 3, messages |-> LongChat],
    [priority |-> 3],
    [priority |-> 9] }

StorePromote ==
  /\ Len(history) < MaxStores
  /\ \E c \in PromoteContexts :
       Store(Self, "short", "conversation_context", c @@ [leadId |-> nextOid])

\* The orchestrator's timer or the agent itself asks for a consolidation.
ConsolidatePromote ==
  /\ Len(memory[Self].longTerm.customerProfiles) < MaxProfiles
  /\ Consolidate(Self)

NextPromote == StorePromote \/ ConsolidatePromote

SpecPromote == Init /\ [][NextPromote]_vars

\* The last operation ran a consolidation pass (on its own or at the end of a
\* store), and the memory the pass started from
RanConsolidate ==
  lastOp.op = "consolidate" \/ (lastOp.op = "store" /\ lastOp.consolidations = 1)

PassStart == IF lastOp.op = "store" THEN lastOp.placed ELSE lastOp.before

AllSteps == <<"promote", "extract", "semantic", "decay">>

\* ---------------------------------------------------------------------------
\* C12 (as stated): when a step of consolidate() fails the later steps still
\* run and the failure does not reach the caller: every pass runs all four
\* steps and completes normally.
\* ---------------------------------------------------------------------------
C12_BestEffortSteps ==
  RanConsolidate => (lastOp.steps = AllSteps /\ ~lastOp.threw)

\* ---------------------------------------------------------------------------
\* C13: after a completed consolidate() currentContext holds no entry with
\* priority > 7 or more than 10 messages; every such entry present when the
\* pass started has produced exactly one new customerProfiles entry; the
\* entries not meeting the criterion remain, in their original order.
\* ---------------------------------------------------------------------------
MeetsCriterion(c) == c.priority > 7 \/ Len(c.messages) > 10

C13_PromotionComplete ==
  (RanConsolidate /\ ~lastOp.threw) =>
    LET before == PassStart
        after == memory[lastOp.agent]
        cc == before.shortTerm.currentContext
        promoted == SelectIdx(cc, {i \in 1..Len(cc) : MeetsCriterion(cc[i])})
        rest == SelectIdx(cc, {i \in 1..Len(cc) : ~MeetsCriterion(cc[i])})
        old == Len(before.longTerm.customerProfiles)
        new == after.longTerm.customerProfiles
    IN /\ \A c \in Range(after.shortTerm.currentContext) : ~MeetsCriterion(c)
       /\ after.shortTerm.currentContext = rest
       /\ Len(new) = old + Len(promoted)
       /\ SubSeq(new, 1, old) = before.longTerm.customerProfiles
       /\ \A i \in 1..Len(promoted) :
            /\ new[old + i].id = promoted[i].leadId
            /\ Len(new[old + i].interactionHistory) = Len(promoted[i].messages)

\* A pass that promotes one entry for its priority and one for its long
\* chat, and keeps a third
C13_Witness ==
  /\ RanConsolidate /\ ~lastOp.threw
  /\ \E c \in Range(PassStart.shortTerm.currentContext) : c.priority > 7
  /\ \E c \in Range(PassStart.shortTerm.currentContext) :
       c.priority <= 7 /\ Len(c.messages) > 10
  /\ Len(memory[Self].shortTerm.currentContext) = 1

\* ---------------------------------------------------------------------------
\* SpecPatterns: interactions and decision outcomes are recorded and a
\* consolidation extracts patterns from a memory that holds none yet
\* ---------------------------------------------------------------------------
EpisodeInputs ==
  { [type |-> "interaction", payload |-> [type |-> "email", outcome |-> "positive"]],
    [type |-> "interaction", payload |-> [type |-> "email", outcome |-> "negative"]],
    [type |-> "decision_outcome", payload |-> [decision |-> "route", success |-> TRUE]],
    [type |-> "decision_outcome", payload |-> [decision |-> "route", success |-> FALSE]] }

StoreEpisode ==
  /\ Len(history) < MaxStores
  /\ \E in \in EpisodeInputs : Store(Self, "episodic", in.type, in.payload)

ConsolidateFirst ==
  /\ lastOp.op = "store"
  /\ memory[Self].longTerm.learningPatterns = <<>>
  /\ Consolidate(Self)

NextPatterns == StoreEpisode \/ ConsolidateFirst

SpecPatterns == Init /\ [][NextPatterns]_vars

\* The interactions of one outcome, the decisions, their successes, and the
\* patterns carrying a name
Outcomes == {"positive", "negative"}

WithOutcome(m, o) ==
  {i \in 1..Len(m.episodic.successfulInteractions) :
     m.episodic.successfulInteractions[i].outcome = o}

Succeeded(m) ==
  {i \in 1..Len(m.episodic.decisionOutcomes) : m.episodic.decisionOutcomes[i].success}

Named(m, name) ==
  {i \in 1..Len(m.longTerm.learningPatterns) :
     m.longTerm.learningPatterns[i].pattern = name}

PatternIs(m, name, good, n) ==
  /\ Cardinality(Named(m, name)) = 1
  /\ \A i \in Named(m, name) :
       /\ m.longTerm.learningPatterns[i].applications = n
       /\ m.longTerm.learningPatterns[i].confidence[1] * n
            = good * m.longTerm.learningPatterns[i].confidence[2]

FirstPass ==
  /\ lastOp.op = "consolidate"
  /\ ~lastOp.threw
  /\ lastOp.before.longTerm.learningPatterns = <<>>

LearnContexts == {<<"pricing">>, <<"churn">>}

LearnInputs ==
  { [tier |-> "semantic", type |-> "domain_knowledge",
     payload |-> [concept |-> <<"pricing">>, description |-> <<"price", " ", "rules">>,
                  confidence |-> Frac(1, 2), relationships |-> <<>>]],
    [tier |-> "semantic", type |-> "domain_knowledge",
     payload |-> [concept |-> <<"pricing">>, description |-> <<"discounts">>,
                  confidence |-> Frac(19, 20), relationships |-> <<>>]],
    [tier |-> "episodic", type |-> "contextual_learning",
     payload |-> [context |-> <<"pricing">>, learning |-> <<"bundles">>,
                  confidence |-> Frac(3, 10)]],
    [tier |-> "episodic", type |-> "contextual_learning",
     payload |-> [context |-> <<"churn">>, learning |-> <<"late", " ", "replies">>,
                  confidence |-> Frac(19, 20)]] }

\* A node carries its id and lastUpdated, a learning its timestamp.
StoreLearn ==
  /\ Len(history) < MaxLearnStores
  /\ \E in \in LearnInputs :
       Store(Self, in.tier, in.type,
             in.payload @@ (IF in.tier = "semantic"
                            THEN [id |-> nextOid, lastUpdated |-> now]
                            ELSE [timestamp |-> now]))

ConsolidateAfterChange ==
  /\ lastOp.op # "consolidate"
  /\ Consolidate(Self)

NextLearn == StoreLearn \/ ConsolidateAfterChange \/ MonthPasses

SpecLearn == Init /\ [][NextLearn]_vars

\* The learnings of a context that are less than 7 days old, in list order
RecentOn(m, c) ==
  SelectIdx(m.episodic.contextualLearnings,
            {i \in 1..Len(m.episodic.contextualLearnings) :
               /\ m.episodic.contextualLearnings[i].context = c
               /\ now - m.episodic.contextualLearnings[i].timestamp < 7})

NodesOn(dk, c) == {i \in 1..Len(dk) : dk[i].concept = c}

IsFirstOn(dk, i) == \A j \in NodesOn(dk, dk[i].concept) : i <= j

\* conf = min(base + k / 10, 1), on fractions in lowest terms
BumpedBy(conf, base, k) ==
  LET sum == Frac(10 * base[1] + k * base[2], 10 * base[2])
  IN conf = IF sum[1] >= sum[2] THEN <<1, 1>> ELSE sum

\* ---------------------------------------------------------------------------
\* C15: in a consolidate(), every contextualLearnings entry less than 7 days
\* old, taken in list order, raises the confidence of the first node whose
\* concept equals its context to min(confidence + 0.1, 1.0) and adds no
\* node, or, when there is no such node, adds exactly one node with that
\* concept; entries older than 7 days change no node.
\* ---------------------------------------------------------------------------
C15_LearningsFoldedIntoNodes ==
  (lastOp.op = "consolidate" /\ ~lastOp.threw) =>
    LET dkb == lastOp.before.semantic.domainKnowledge
        dka == memory[Self].semantic.domainKnowledge
        fresh == {c \in LearnContexts :
                    RecentOn(lastOp.before, c) # <<>> /\ NodesOn(dkb, c) = {}}
    IN /\ Len(dka) = Len(dkb) + Cardinality(fresh)
       /\ \A i \in 1..Len(dkb) :
            LET k == IF IsFirstOn(dkb, i)
                     THEN Len(RecentOn(lastOp.before, dkb[i].concept)) ELSE 0
            IN /\ dka[i].id = dkb[i].id /\ dka[i].concept = dkb[i].concept
               /\ IF k > 0
                  THEN BumpedBy(dka[i].confidence, dkb[i].confidence, k)
                  ELSE IF now - dkb[i].lastUpdated > 60
                  THEN dka[i].confidence
                         = Frac(95 * dkb[i].confidence[1], 100 * dkb[i].confidence[2])
                  ELSE dka[i].confidence = dkb[i].confidence
       /\ \A c \in fresh :
            /\ Cardinality(NodesOn(dka, c)) = 1
            /\ \A j \in NodesOn(dka, c) :
                 BumpedBy(dka[j].confidence, RecentOn(lastOp.before, c)[1].confidence,
                          Len(RecentOn(lastOp.before, c)) - 1)

\* One pass bumps an existing node twice and is followed, a month later, by a
\* pass in which the same learnings are too old to count.
C15_Witness ==
  /\ lastOp.op = "consolidate" /\ ~lastOp.threw
  /\ now >= 35
  /\ Len(lastOp.before.episodic.contextualLearnings) = 2
  /\ \E i \in 1..Len(memory[Self].semantic.domainKnowledge) :
       /\ memory[Self].semantic.domainKnowledge[i].confidence = Frac(7, 10)
       /\ lastOp.before.semantic.domainKnowledge[i].confidence = Frac(7, 10)

\* ---------------------------------------------------------------------------
\* SpecLink: knowledge nodes and a hand-made relationship are stored and
\* consolidations link the similar nodes
\* ---------------------------------------------------------------------------
AIAutomation ==
  [id |-> 3, concept |-> <<"AI", " ", "automation">>,
   description |-> <<"uses", " ", "AI", " ", "to", " ", "automate", " ", "tasks">>,
   confidence |-> Frac(1, 2), relationships |-> <<>>, lastUpdated |-> 0]

AITooling ==
  [id |-> 4, concept |-> <<"AI", " ", "tooling">>,
   description |-> <<"AI", " ", "based", " ", "automation", " ", "tooling">>,
   confidence |-> Frac(1, 2), relationships |-> <<>>, lastUpdated |-> 0]

LinkInputs ==
  { [type |-> "domain_knowledge",
     payload |-> [id |-> 1, concept |-> <<"lead", " ", "scoring">>,
                  description |-> <<"Lead", " ", "scoring">>,
                  confidence |-> Frac(1, 2), relationships |-> <<>>, lastUpdated |-> 0]],
    [type |-> "domain_knowledge",
     payload |-> [id |-> 2, concept |-> <<"lead", " ", "scoring", " ", "rules">>,
                  description |-> <<"scoring">>,
                  confidence |-> Frac(1, 2), relationships |-> <<>>, lastUpdated |-> 0]],
    [type |-> "domain_knowledge", payload |-> AIAutomation],
    [type |-> "domain_knowledge", payload |-> AITooling],
    [type |-> "relationship",
     payload |-> [source |-> 2, target |-> 1, type |-> "depends_on"]] }

StoreLink ==
  /\ Len(history) < MaxLearnStores
  /\ \E in \in LinkInputs : Store(Self, "semantic", in.type, in.payload)

NextLink == StoreLink \/ ConsolidateSelf

SpecLink == Init /\ [][NextLink]_vars

\* Jaccard overlap of the lower-cased words of concept and description
Lower(w) == IF w = "AI" THEN "ai" ELSE IF w = "Lead" THEN "lead" ELSE w

Words(node) ==
  {Lower(w) : w \in (Range(node.concept) \cup Range(node.description)) \ {" "}}

Similar(a, b) ==
  10 * Cardinality(Words(a) \cap Words(b)) > 6 * Cardinality(Words(a) \cup Words(b))

Linking(rels, a, b) ==
  {r \in 1..Len(rels) :
     \/ (rels[r].source = a.id /\ rels[r].target = b.id)
     \/ (rels[r].source = b.id /\ rels[r].target = a.id)}

AllLinked(m) ==
  \A i, j \in 1..Len(m.semantic.domainKnowledge) :
    (i < j /\ Similar(m.semantic.domainKnowledge[i], m.semantic.domainKnowledge[j])) =>
      Linking(m.semantic.relationships,
              m.semantic.domainKnowledge[i], m.semantic.domainKnowledge[j]) # {}

\* ---------------------------------------------------------------------------
\* C16: after consolidate() every pair of nodes whose Jaccard similarity
\* exceeds 0.6 is connected by a relationship in one direction or the other;
\* the pass adds a related_to relationship only for a similar pair that no
\* relationship connected before; a pass on a node set whose similar pairs
\* are all connected adds nothing.
\* ---------------------------------------------------------------------------
C16_SimilarNodesLinked ==
  (lastOp.op = "consolidate" /\ ~lastOp.threw) =>
    LET dk == memory[Self].semantic.domainKnowledge
        old == lastOp.before.semantic.relationships
        new == memory[Self].semantic.relationships
    IN /\ AllLinked(memory[Self])
       /\ Len(new) >= Len(old) /\ SubSeq(new, 1, Len(old)) = old
       /\ \A r \in (Len(old) + 1)..Len(new) :
            /\ new[r].type = "related_to"
            /\ \E i, j \in 1..Len(dk) :
                 /\ i < j /\ Similar(dk[i], dk[j])
                 /\ new[r].source = dk[i].id /\ new[r].target = dk[j].id
                 /\ Linking(old, dk[i], dk[j]) = {}
                 /\ Linking(new, dk[i], dk[j]) = {r}
       /\ AllLinked(lastOp.before) => new = old

\* A pass links the two similar nodes, next to a third node that it leaves
\* unlinked.
C16_Witness ==
  /\ lastOp.op = "consolidate" /\ ~lastOp.threw
  /\ Len(memory[Self].semantic.domainKnowledge) = 3
  /\ lastOp.before.semantic.relationships = <<>>
  /\ Len(memory[Self].semantic.relationships) = 1
  /\ memory[Self].semantic.relationships[1].type = "related_to"
  /\ {memory[Self].semantic.relationships[1].source,
      memory[Self].semantic.relationships[1].target} = {1, 2}

BothAINodes(m) ==
  /\ AIAutomation \in {[k \in DOMAIN AIAutomation |-> n[k]] :
                         n \in Range(m.semantic.domainKnowledge)}
  /\ AITooling \in {[k \in DOMAIN AITooling |-> n[k]] :
                      n \in Range(m.semantic.domainKnowledge)}

AILinks(m) == Linking(m.semantic.relationships, AIAutomation, AITooling)

\* ---------------------------------------------------------------------------
\* C17 (as stated): the nodes 'AI automation' / 'uses AI to automate tasks'
\* and 'AI tooling' / 'AI based automation tooling' have a similarity above
\* 0.6, and one consolidate() inserts exactly one related_to relationship
\* between them.
\* ---------------------------------------------------------------------------
C17_AINodesLinked ==
  (lastOp.op = "consolidate" /\ ~lastOp.threw /\ BothAINodes(memory[Self])) =>
    /\ Similar(AIAutomation, AITooling)
    /\ Cardinality(AILinks(memory[Self])) = 1
    /\ \A r \in AILinks(memory[Self]) :
         memory[Self].semantic.relationships[r].type = "related_to"

\* ---------------------------------------------------------------------------
\* C17 (amended): the two nodes share 2 of their 8 distinct words (ai,
\* automation), a similarity of 0.25, so consolidate() inserts no
\* relationship between them.
\* ---------------------------------------------------------------------------
C17_AINodesNotLinked ==
  (lastOp.op = "consolidate" /\ ~lastOp.threw /\ BothAINodes(memory[Self])) =>
    /\ Cardinality(Words(AIAutomation) \cap Words(AITooling)) = 2
    /\ Cardinality(Words(AIAutomation) \cup Words(AITooling)) = 8
    /\ AILinks(memory[Self]) = {}

C17_Witness ==
  /\ lastOp.op = "consolidate" /\ ~lastOp.threw
  /\ BothAINodes(memory[Self])
  /\ Len(memory[Self].semantic.domainKnowledge) = 2
  /\ memory[Self].semantic.relationships = <<>>

\* ---------------------------------------------------------------------------
\* SpecDecay: learning patterns of low confidence are stored, months pass,
\* and consolidations decay and delete them
\* ---------------------------------------------------------------------------
PatternConfidences == {Frac(3, 25), Frac(21, 200), Frac(1, 10)}

StorePattern ==
  /\ Len(history) < MaxLearnStores
  /\ \E c \in PatternConfidences :
       Store(Self, "long", "learning_pattern",
             [id |-> nextOid, pattern |-> <<"email", "_", "positive">>, confidence |-> c,
              applications |-> 3, successRate |-> c, lastUsed |-> now, context |-> <<>>])

NextDecay == StorePattern \/ ConsolidateSelf \/ MonthPasses

SpecDecay == Init /\ [][NextDecay]_vars

\* The confidence the claim gives an entry after a pass at the present time
AfterPass(p) ==
  IF now - p.lastUsed > 30
  THEN Frac(95 * p.confidence[1], 100 * p.confidence[2])
  ELSE p.confidence

AboveFloor(conf) == 10 * conf[1] > conf[2]

\* ---------------------------------------------------------------------------
\* C18: each consolidate() multiplies the confidence of a learningPatterns
\* entry whose lastUsed is more than 30 days old by 0.95, a strict decrease;
\* the entry stays while the product is above 0.1 and is deleted by the first
\* pass that brings it to 0.1 or below; an entry used within 30 days keeps
\* its confidence.
\* ---------------------------------------------------------------------------
C18_PatternDecay ==
  (lastOp.op = "consolidate" /\ ~lastOp.threw) =>
    LET old == lastOp.before.longTerm.learningPatterns
        new == memory[Self].longTerm.learningPatterns
        kept == SelectIdx(old, {i \in 1..Len(old) : AboveFloor(AfterPass(old[i]))})
    IN /\ Len(new) = Len(kept)
       /\ \A i \in 1..Len(kept) :
            /\ new[i].id = kept[i].id
            /\ new[i].lastUsed = kept[i].lastUsed
            /\ new[i].confidence = AfterPass(kept[i])
            /\ IF now - kept[i].lastUsed > 30
               THEN FracLt(new[i].confidence, kept[i].confidence)
               ELSE new[i].confidence = kept[i].confidence

\* A stale pattern that survived earlier passes is deleted by this one, while
\* a pattern used this month is kept as it is.
C18_Witness ==
  /\ lastOp.op = "consolidate" /\ ~lastOp.threw
  /\ \E p \in Range(lastOp.before.longTerm.learningPatterns) :
       /\ now - p.lastUsed > 30
       /\ p.confidence \notin PatternConfidences
       /\ \A q \in Range(memory[Self].longTerm.learningPatterns) : q.id # p.id
  /\ \E q \in Range(memory[Self].longTerm.learningPatterns) :
       now - q.lastUsed <= 30 /\ q.confidence = Frac(3, 25)

\* ---------------------------------------------------------------------------
\* SpecConfidence: patterns, nodes, learnings and decision outcomes are
\* stored with confidences in [0,1]; consolidations and compressions follow
\* ---------------------------------------------------------------------------
ConfidenceInputs ==
  { [tier |-> "long", type |-> "learning_pattern",
     payload |-> [pattern |-> <<"email", "_", "positive">>, confidence |-> Frac(21, 200),
                  applications |-> 3, successRate |-> One, context |-> <<>>]],
    [tier |-> "semantic", type |-> "domain_knowledge",
     payload |-> [concept |-> <<"pricing">>, description |-> <<"price", " ", "rules">>,
                  confidence |-> Frac(9, 10), relationships |-> <<>>]],
    [tier |-> "episodic", type |-> "contextual_learning",
     payload |-> [context |-> <<"pricing">>, learning |-> <<"bundles">>,
                  confidence |-> One]],
    [tier |-> "episodic", type |-> "decision_outcome",
     payload |-> [decision |-> "route", success |-> TRUE]],
    [tier |-> "episodic", type |-> "decision_outcome",
     payload |-> [decision |-> "route", success |-> FALSE]] }

StoreConfidence ==
  /\ Len(history) < MaxLearnStores
  /\ \E in \in ConfidenceInputs :
       Store(Self, in.tier, in.type,
             in.payload @@ (CASE in.tier = "long" -> [id |-> nextOid, lastUsed |-> now]
                              [] in.tier = "semantic" -> [id |-> nextOid, lastUpdated |-> now]
                              [] OTHER -> [timestamp |-> now]))

CompressAfterChange ==
  /\ lastOp.op \in {"store", "tick"}
  /\ Compress(Self)

NextConfidence ==
  StoreConfidence \/ ConsolidateAfterChange \/ CompressAfterChange \/ MonthPasses

SpecConfidence == Init /\ [][NextConfidence]_vars

InUnit(conf) == 0 <= conf[1] /\ conf[1] <= conf[2]

\* ---------------------------------------------------------------------------
\* C19: in every state reached by store() with payload confidences in [0,1],
\* consolidate() and compressMemory(), the confidence of every
\* learningPatterns entry and of every domainKnowledge node is within [0,1];
\* right after a consolidate() every remaining learningPatterns entry has a
\* confidence above 0.1, patterns extracted in that pass included.
\* ---------------------------------------------------------------------------
C19_ConfidenceBounds ==
  /\ \A p \in Range(memory[Self].longTerm.learningPatterns) : InUnit(p.confidence)
  /\ \A n \in Range(memory[Self].semantic.domainKnowledge) : InUnit(n.confidence)
  /\ (lastOp.op = "consolidate" /\ ~lastOp.threw) =>
       \A p \in Range(memory[Self].longTerm.learningPatterns) : AboveFloor(p.confidence)

\* A pass that deletes a stored pattern decayed below the floor and keeps a
\* pattern it has extracted itself from a half-successful decision.
C19_Witness ==
  /\ lastOp.op = "consolidate" /\ ~lastOp.threw
  /\ \E p \in Range(lastOp.before.longTerm.learningPatterns) :
       \A q \in Range(memory[Self].longTerm.learningPatterns) : q.id # p.id
  /\ \E q \in Range(memory[Self].longTerm.learningPatterns) :
       /\ \A p \in Range(lastOp.before.longTerm.learningPatterns) : p.id # q.id
       /\ q.confidence = Frac(1, 2)

\* The ids of the nodes held in semantic.domainKnowledge
ConceptIds(m) == {n.id : n \in Range(m.semantic.domainKnowledge)}

\* ---------------------------------------------------------------------------
\* C20: after every completed consolidate(), each entry of
\* semantic.relationships has a source and a target that are ids of nodes
\* held in semantic.domainKnowledge; a relationship stored with the id of no
\* node is removed by the next consolidation.
\* ---------------------------------------------------------------------------
C20_RelationshipsReferToNodes ==
  (lastOp.op = "consolidate" /\ ~lastOp.threw) =>
    \A rel \in Range(memory[Self].semantic.relationships) :
      /\ rel.source \in ConceptIds(memory[Self])
      /\ rel.target \in ConceptIds(memory[Self])

\* ---------------------------------------------------------------------------
\* SpecCompress: nodes and relationships are stored in the semantic tier,
\* consolidations link similar nodes and compressions merge and clean up
\* ---------------------------------------------------------------------------
EmailTiming(i, conf) ==
  [id |-> i, concept |-> <<"email", " ", "timing">>,
   description |-> <<"Email", " ", "timing">>,
   confidence |-> conf, relationships |-> <<i>>, lastUpdated |-> 0]

CompressInputs ==
  { in \in LinkInputs : in.type = "domain_knowledge" /\ in.payload.id \in {1, 2} } \cup
  { [type |-> "domain_knowledge", payload |-> EmailTiming(5, Frac(1, 2))],
    [type |-> "domain_knowledge", payload |-> EmailTiming(6, Frac(9, 10))],
    [type |-> "domain_knowledge", payload |-> EmailTiming(7, Frac(7, 10))],
    [type |-> "relationship",
     payload |-> [source |-> 2, target |-> 1, type |-> "related_to"]],
    [type |-> "relationship",
     payload |-> [source |-> 5, target |-> 6, type |-> "related_to"]] }

StoreCompress ==
  /\ Len(history) < MaxLearnStores
  /\ \E in \in CompressInputs : Store(Self, "semantic", in.type, in.payload)

NextCompress == StoreCompress \/ ConsolidateSelf \/ CompressSelf

SpecCompress == Init /\ [][NextCompress]_vars

RanCompress == lastOp.op = "compress" /\ ~lastOp.threw

SamePair(r1, r2) ==
  /\ r1.type = r2.type
  /\ {r1.source, r1.target} = {r2.source, r2.target}

\* ---------------------------------------------------------------------------
\* C21: after every completed compressMemory(), no entry of
\* semantic.relationships has a source or target id absent from
\* semantic.domainKnowledge, and no two entries connect the same unordered
\* pair of ids with the same type.
\* ---------------------------------------------------------------------------
C21_RelationshipIntegrity ==
  RanCompress =>
    LET rels == memory[Self].semantic.relationships IN
    /\ \A i \in 1..Len(rels) :
         /\ rels[i].source \in ConceptIds(memory[Self])
         /\ rels[i].target \in ConceptIds(memory[Self])
    /\ \A i, j \in 1..Len(rels) : i < j => ~SamePair(rels[i], rels[j])

\* A compression that meets a link and its reverse between two nodes it
\* keeps, and leaves one of the two.
C21_Witness ==
  /\ RanCompress
  /\ LET old == lastOp.before.semantic.relationships
         new == memory[Self].semantic.relationships
     IN /\ \E i, j \in 1..Len(old) :
             /\ i < j
             /\ old[i].source = old[j].target /\ old[i].target = old[j].source
             /\ old[i].source # old[i].target
             /\ old[i].type = old[j].type
             /\ {old[i].source, old[i].target} \subseteq ConceptIds(memory[Self])
        /\ Len(new) = 1

ContainsSeq(s, sub) ==
  \E k \in 0..(Len(s) - Len(sub)) : SubSeq(s, k + 1, k + Len(sub)) = sub

\* ---------------------------------------------------------------------------
\* C22: when compressMemory() merges two domainKnowledge nodes whose
\* similarity exceeds 0.8, the node that remains is the one that had the
\* higher confidence, its description contains both descriptions and its
\* relationship list both nodes' relationship ids; the node of lower
\* confidence is the one removed.
\* ---------------------------------------------------------------------------
C22_HigherConfidenceSurvives ==
  (/\ RanCompress
   /\ Len(lastOp.before.semantic.domainKnowledge) = 2
   /\ Len(memory[Self].semantic.domainKnowledge) = 1) =>
    LET a == lastOp.before.semantic.domainKnowledge[1]
        b == lastOp.before.semantic.domainKnowledge[2]
        hi == IF a.confidence[1] * b.confidence[2] >= b.confidence[1] * a.confidence[2]
              THEN a ELSE b
        kept == memory[Self].semantic.domainKnowledge[1]
    IN /\ kept.id = hi.id
       /\ kept.confidence = hi.confidence
       /\ ContainsSeq(kept.description, a.description)
       /\ ContainsSeq(kept.description, b.description)
       /\ Range(a.relationships) \cup Range(b.relationships) \subseteq Range(kept.relationships)

\* ---------------------------------------------------------------------------
\* C23: from every memory state reached through store(), every
\* consolidate() and every compressMemory() reaches its end without an
\* exception, also on three or more nodes pairwise similar above 0.8.
\* ---------------------------------------------------------------------------
C23_PassesComplete ==
  lastOp.op \in {"consolidate", "compress"} => ~lastOp.threw

\* ---------------------------------------------------------------------------
\* getMemoryStats of the memory manager and of the agent that owns it
\* ---------------------------------------------------------------------------
getMemoryStats(m) ==
  [ shortTermItems |-> Len(m.shortTerm.currentContext) + Len(m.shortTerm.activeLeads)
                         + Len(m.shortTerm.recentActions),
    longTermItems |-> Len(m.longTerm.customerProfiles) + Len(m.longTerm.campaignHistory)
                        + Len(m.longTerm.performanceMetrics)
                        + Len(m.longTerm.learningPatterns),
    episodicItems |-> Len(m.episodic.successfulInteractions)
                        + Len(m.episodic.problemResolutions)
                        + Len(m.episodic.decisionOutcomes)
                        + Len(m.episodic.contextualLearnings),
    semanticItems |-> Len(m.semantic.domainKnowledge) + Len(m.semantic.relationships)
                        + Len(m.semantic.concepts) + Len(m.semantic.rules) ]

\* BaseAgent.getMemoryStats reads the same memory object (getMemory returns
\* the manager's own reference).
agentGetMemoryStats(m) ==
  [ shortTermItems |-> Len(m.shortTerm.currentContext) + Len(m.shortTerm.activeLeads)
                         + Len(m.shortTerm.recentActions),
    longTermItems |-> Len(m.longTerm.customerProfiles) + Len(m.longTerm.campaignHistory)
                        + Len(m.longTerm.performanceMetrics),
    episodicItems |-> Len(m.episodic.successfulInteractions)
                        + Len(m.episodic.problemResolutions),
    semanticItems |-> Len(m.semantic.domainKnowledge) + Len(m.semantic.relationships) ]

\* getSystemMemoryStats asks the agent, not its manager
GetMemoryStats(a) ==
  /\ lastOp' = [op |-> "stats", agent |-> a,
                reported |-> agentGetMemoryStats(memory[a]),
                manager |-> getMemoryStats(memory[a])]
  /\ UNCHANGED <<memory, now, nextOid, history, pending, mcp>>

\* ---------------------------------------------------------------------------
\* SpecStats: entries are stored in the long-term, episodic and semantic
\* tiers and the agent is asked for its stats
\* ---------------------------------------------------------------------------
GetStatsSelf == GetMemoryStats(Self)

NextStats == StoreConfidence \/ GetStatsSelf

SpecStats == Init /\ [][NextStats]_vars

\* ---------------------------------------------------------------------------
\* C25: in every reachable state the stats an agent reports equal those of
\* its memory manager: each of shortTermItems, longTermItems, episodicItems
\* and semanticItems is the sum of the lengths of all list sub-collections
\* of its tier, learningPatterns, decisionOutcomes, contextualLearnings,
\* concepts and rules included.
\* ---------------------------------------------------------------------------
C25_AgentStatsAreManagerStats ==
  lastOp.op = "stats" => lastOp.reported = lastOp.manager

\* ---------------------------------------------------------------------------
\* SpecSummary: interactions of two outcomes are stored and compressed
\* ---------------------------------------------------------------------------
SummaryOutcomes == {"positive", "negative"}

StoreInteraction ==
  /\ Len(history) < MaxEpisodes
  /\ \E oc \in SummaryOutcomes :
       Store(Self, "episodic", "interaction",
             [type |-> "email", outcome |-> oc, sentiment |-> 1, timestamp |-> now])

NextSummary == StoreInteraction \/ CompressSelf

SpecSummary == Init /\ [][NextSummary]_vars

\* The successfulInteractions of one (type, outcome), in list order
GroupOf(m, ty, oc) ==
  SelectIdx(m.episodic.successfulInteractions,
            {i \in 1..Len(m.episodic.successfulInteractions) :
               /\ m.episodic.successfulInteractions[i].type = ty
               /\ m.episodic.successfulInteractions[i].outcome = oc})

\* The summaries a compression has added for one (type, outcome)
NewSummaries(ty, oc) ==
  {l \in Range(memory[Self].episodic.contextualLearnings) :
     /\ l \notin Range(lastOp.before.episodic.contextualLearnings)
     /\ l.context = <<ty, "_", oc>>}

SummaryConfidence(n) == IF n >= 9 THEN <<9, 10>> ELSE Frac(n, 10)

\* ---------------------------------------------------------------------------
\* C24: after compressMemory() no (type, outcome) group of
\* successfulInteractions has more than 5 members: every group that had more
\* than 5 has all its members deleted and exactly one contextualLearnings
\* summary added, with confidence min(count/10, 0.9) and applications =
\* count; every group of at most 5 is unchanged and adds no summary.
\* ---------------------------------------------------------------------------
C24_LargeGroupsSummarised ==
  RanCompress =>
    \A oc \in SummaryOutcomes :
      LET old == GroupOf(lastOp.before, "email", oc)
          new == GroupOf(memory[Self], "email", oc)
      IN /\ Len(new) <= 5
         /\ IF Len(old) > 5
            THEN /\ new = <<>>
                 /\ Cardinality(NewSummaries("email", oc)) = 1
                 /\ \A l \in NewSummaries("email", oc) :
                      /\ l.confidence = SummaryConfidence(Len(old))
                      /\ l.applications = Len(old)
            ELSE /\ new = old
                 /\ NewSummaries("email", oc) = {}

\* A compression that replaces a group of more than five positive
\* interactions by its summary and leaves a smaller group alone.
C24_Witness ==
  /\ RanCompress
  /\ Len(GroupOf(lastOp.before, "email", "positive")) > 5
  /\ Len(GroupOf(lastOp.before, "email", "negative")) \in 1..5
  /\ GroupOf(memory[Self], "email", "negative") = GroupOf(lastOp.before, "email", "negative")
  /\ GroupOf(memory[Self], "email", "positive") = <<>>
  /\ \E l \in NewSummaries("email", "positive") : l.applications > 5

\* ---------------------------------------------------------------------------
\* Concurrent callers.  An async method runs without interruption up to its
\* next await that suspends; the private steps contain no await of their own,
\* so store() suspends after the placement (storeShortTerm with
\* enforceShortTermLimits) and consolidate() after each of its four steps.
\* A suspended call resumes in any order with the others.
\* ---------------------------------------------------------------------------
Block(c, step, r, pc) ==
  /\ memory' = [memory EXCEPT ![Self] = r.mem]
  /\ nextOid' = r.uuid
  /\ pending' = [pending EXCEPT ![c] = IF r.threw THEN "idle" ELSE pc]
  /\ lastOp' = [op |-> "block", caller |-> c, step |-> step, before |-> memory[Self],
                threw |-> r.threw]

\* store(): the item is built and placed, the limits are enforced
StoreBegin(c, payload) ==
  /\ pending[c] = "idle"
  /\ \E data \in {payload @@ [oid |-> nextOid]} :
       /\ Block(c, "place",
                Done(Place(memory[Self], "short",
                           MemoryItem([type |-> "conversation_context", data |-> data],
                                      Self, now, nextOid + 1)),
                     nextOid + 2),
                "placed")
       /\ history' = Append(history, [agent |-> Self, tier |-> "short",
                                      type |-> "conversation_context", data |-> data])
  /\ UNCHANGED <<now, mcp>>

\* store() resumed: shouldConsolidate() is looked at now; consolidate() runs
\* its first step at once
StoreResume(c) ==
  /\ pending[c] = "placed"
  /\ IF shouldConsolidate(memory[Self])
     THEN Block(c, "promote",
                consolidateShortToLong(memory[Self], Self, now, nextOid), "promoted")
     ELSE Block(c, "return", Done(memory[Self], nextOid), "idle")
  /\ UNCHANGED <<now, history, mcp>>

\* consolidate() called by performMemoryCleanup
ConsolidateBegin(c) ==
  /\ pending[c] = "idle"
  /\ Block(c, "promote",
           consolidateShortToLong(memory[Self], Self, now, nextOid), "promoted")
  /\ UNCHANGED <<now, history, mcp>>

\* consolidate() resumed after one of its awaits
ConsolidateResume(c) ==
  /\ CASE pending[c] = "promoted" ->
            Block(c, "extract",
                  extractPatternsFromEpisodic(memory[Self], now, nextOid), "extracted")
       [] pending[c] = "extracted" ->
            Block(c, "semantic",
                  updateSemanticKnowledge(memory[Self], Self, now, nextOid), "updated")
       [] pending[c] = "updated" ->
            Block(c, "decay", applyMemoryDecay(memory[Self], now, nextOid), "idle")
       [] OTHER -> FALSE
  /\ UNCHANGED <<now, history, mcp>>

\* ---------------------------------------------------------------------------
\* SpecAsync: two request handlers store contexts while the cleanup timer
\* consolidates, all on one MemoryManager
\* ---------------------------------------------------------------------------
AsyncContexts ==
  { c \in PromoteContexts : Has(c, "messages") }

RequestStores ==
  /\ Len(history) < MaxAsyncStores
  /\ \E c \in Requests : \E ctx \in AsyncContexts :
       StoreBegin(c, ctx @@ [leadId |-> nextOid])

RequestResumes == \E c \in Requests : StoreResume(c)

TimerConsolidates == ConsolidateBegin("timer")

PassResumes == \E c \in Callers : ConsolidateResume(c)

NextAsync == RequestStores \/ RequestResumes \/ TimerConsolidates \/ PassResumes

SpecAsync == Init /\ [][NextAsync]_vars

LeadIds(list) == [i \in 1..Len(list) |-> list[i].leadId]
ProfileIds(m) == [i \in 1..Len(m.longTerm.customerProfiles) |->
                    m.longTerm.customerProfiles[i].id]

\* What one uninterrupted block may have done to the short-term lists and
\* to customerProfiles
BlockKeepsRecords ==
  LET old == lastOp.before
      new == memory[Self]
      cc == old.shortTerm.currentContext
      nc == new.shortTerm.currentContext
  IN
  CASE lastOp.step = "promote" ->
         /\ nc = SelectIdx(cc, {i \in 1..Len(cc) : ~MeetsCriterion(cc[i])})
         /\ ProfileIds(new) = ProfileIds(old)
                \o LeadIds(SelectIdx(cc, {i \in 1..Len(cc) : MeetsCriterion(cc[i])}))
         /\ new.shortTerm.activeLeads = old.shortTerm.activeLeads
         /\ new.shortTerm.recentActions = old.shortTerm.recentActions
    [] lastOp.step = "place" ->
         /\ new.longTerm = old.longTerm
         /\ Range(nc) \subseteq Range(cc) \cup {history[Len(history)].data}
         /\ IF Len(cc) < MAX_SHORT_TERM_ITEMS
            THEN nc = Append(cc, history[Len(history)].data)
            ELSE /\ Len(nc) = MAX_SHORT_TERM_ITEMS
                 /\ \A x \in (Range(cc) \cup {history[Len(history)].data}) \ Range(nc) :
                      \A y \in Range(nc) : x.priority <= y.priority
    [] OTHER ->
         /\ new.shortTerm = old.shortTerm
         /\ new.longTerm.customerProfiles = old.longTerm.customerProfiles

\* ---------------------------------------------------------------------------
\* C26: under every interleaving, at await points, of concurrent store()
\* calls, a timer-driven consolidate() and a store-triggered consolidate()
\* on one instance: the short-term lists never exceed MAX_SHORT_TERM_ITEMS,
\* each currentContext entry that qualifies for promotion yields exactly one
\* customerProfiles entry, and no stored short-term record disappears other
\* than by promotion or capacity eviction.
\* ---------------------------------------------------------------------------
C26_SafeUnderInterleaving ==
  /\ Len(memory[Self].shortTerm.currentContext) <= MAX_SHORT_TERM_ITEMS
  /\ Len(memory[Self].shortTerm.activeLeads) <= MAX_SHORT_TERM_ITEMS
  /\ Len(memory[Self].shortTerm.recentActions) <= MAX_SHORT_TERM_ITEMS
  /\ \A i, j \in 1..Len(ProfileIds(memory[Self])) :
       ProfileIds(memory[Self])[i] = ProfileIds(memory[Self])[j] => i = j
  /\ \A x \in Range(memory[Self].shortTerm.currentContext) :
       x.leadId \notin Range(ProfileIds(memory[Self]))
  /\ \A h \in Range(history) :
       h.data.leadId \in Range(ProfileIds(memory[Self])) => MeetsCriterion(h.data)
  /\ lastOp.op = "block" => BlockKeepsRecords

\* The timer's pass promotes a context while one request is suspended
\* after its placement and the other inside its own consolidation.
C26_Witness ==
  /\ lastOp.op = "block" /\ lastOp.caller = "timer" /\ lastOp.step = "promote"
  /\ pending["request-1"] = "placed"
  /\ pending["request-2"] \in {"promoted", "extracted", "updated"}
  /\ Len(memory[Self].longTerm.customerProfiles)
       > Len(lastOp.before.longTerm.customerProfiles)

\* ---------------------------------------------------------------------------
\* SpecSticky: leads and actions accumulate while the agent also writes to
\* the other tiers, consolidates and compresses
\* ---------------------------------------------------------------------------
StickyInputs ==
  { [tier |-> "short", type |-> "active_lead", payload |-> [id |-> 7, score |-> 2]],
    [tier |-> "short", type |-> "recent_action",
     payload |-> [agentId |-> Self, timestamp |-> 10]],
    [tier |-> "short", type |-> "conversation_context",
     payload |-> [leadId |-> 1, priority |-> 9, messages |-> <<>>]],
    [tier |-> "long", type |-> "campaign", payload |-> [name |-> "spring"]],
    [tier |-> "long", type |-> "note", payload |-> [name |-> "memo"]],
    [tier |-> "semantic", type |-> "shared_knowledge", payload |-> [name |-> "tip"]] }

StoreSticky ==
  /\ Len(history) < MaxStores
  /\ \E in \in StickyInputs : Store(Self, in.tier, in.type, in.payload)

NextSticky == StoreSticky \/ ConsolidateSelf \/ CompressSelf

SpecSticky == Init /\ [][NextSticky]_vars

LeadsAndActions(m) == Len(m.shortTerm.activeLeads) + Len(m.shortTerm.recentActions)

\* ---------------------------------------------------------------------------
\* C27: no consolidate() or compressMemory() removes an entry from
\* activeLeads or recentActions, so once len(activeLeads) +
\* len(recentActions) exceeds CONSOLIDATION_THRESHOLD it stays above it in
\* every later state, and from then on every store() call, to any tier and
\* also when the write is dropped, runs a full consolidation pass.
\* ---------------------------------------------------------------------------
C27_TriggerStaysOn ==
  /\ lastOp.op \in {"consolidate", "compress"} =>
       /\ memory[Self].shortTerm.activeLeads = lastOp.before.shortTerm.activeLeads
       /\ memory[Self].shortTerm.recentActions = lastOp.before.shortTerm.recentActions
  /\ lastOp.op = "store" =>
       /\ memory[Self].shortTerm.activeLeads = lastOp.placed.shortTerm.activeLeads
       /\ memory[Self].shortTerm.recentActions = lastOp.placed.shortTerm.recentActions
  /\ (lastOp.op \in {"store", "consolidate", "compress"}
        /\ LeadsAndActions(lastOp.before) > CONSOLIDATION_THRESHOLD) =>
       /\ LeadsAndActions(memory[Self]) > CONSOLIDATION_THRESHOLD
       /\ lastOp.op = "store" =>
            /\ lastOp.consolidations = 1
            /\ lastOp.steps = AllSteps
            /\ ~lastOp.threw

\* A write to the long-term tier under a tag no list takes is dropped and
\* still runs the pass, the leads list being full and above the threshold.
C27_Witness ==
  /\ lastOp.op = "store" /\ lastOp.tier = "long" /\ lastOp.type = "note"
  /\ lastOp.placed = lastOp.before
  /\ Len(lastOp.before.shortTerm.activeLeads) = MAX_SHORT_TERM_ITEMS
  /\ LeadsAndActions(lastOp.before) > CONSOLIDATION_THRESHOLD
  /\ lastOp.consolidations = 1

\* ---------------------------------------------------------------------------
\* SpecDaily: interactions and learnings are stored, and the cleanup timer
\* consolidates once a day
\* ---------------------------------------------------------------------------
DailyInputs ==
  { [type |-> "interaction", payload |-> [type |-> "email", outcome |-> "positive"]],
    [type |-> "contextual_learning",
     payload |-> [context |-> <<"pricing">>, learning |-> <<"bundles">>,
                  confidence |-> Frac(3, 10)]],
    [type |-> "contextual_learning",
     payload |-> [context |-> <<"churn">>, learning |-> <<"late", " ", "replies">>,
                  confidence |-> Frac(19, 20)]] }

StoreDaily ==
  /\ Len(history) < MaxLearnStores
  /\ \E in \in DailyInputs :
       Store(Self, "episodic", in.type, in.payload @@ [timestamp |-> now])

\* The next day's timer tick: consolidate() runs with the clock a day on
ConsolidateNextDay ==
  /\ now < MaxPasses
  /\ \E r \in {consolidate(memory[Self], Self, now + 1, nextOid)} :
       /\ memory' = [memory EXCEPT ![Self] = r.mem]
       /\ nextOid' = r.uuid
       /\ now' = now + 1
       /\ lastOp' = [op |-> "consolidate", agent |-> Self, before |-> memory[Self],
                     steps |-> r.steps, threw |-> r.threw]
       /\ UNCHANGED <<history, pending, mcp>>

NextDaily == StoreDaily \/ ConsolidateNextDay

SpecDaily == Init /\ [][NextDaily]_vars

EmailPositive == <<"email", "_", "positive">>

PatternCount(m, key) ==
  Cardinality({i \in 1..Len(m.longTerm.learningPatterns) :
                 m.longTerm.learningPatterns[i].pattern = key})

\* ---------------------------------------------------------------------------
\* C28: pattern extraction does not look for an existing pattern of the same
\* key: each consolidate() appends one learningPatterns entry for every
\* qualifying episodic group, so after k calls over an unchanged group of at
\* least 3 positive interactions of one key, learningPatterns holds k entries
\* with that key.
\* ---------------------------------------------------------------------------
C28_PatternPerPass ==
  LET positives == GroupOf(memory[Self], "email", "positive") IN
  /\ (lastOp.op = "consolidate" /\ ~lastOp.threw) =>
       PatternCount(memory[Self], EmailPositive) =
         PatternCount(lastOp.before, EmailPositive)
           + (IF Len(positives) >= 3 THEN 1 ELSE 0)
  \* the group was complete before the first pass: one entry per pass so far
  /\ (Len(positives) >= 3 /\ \A x \in Range(positives) : x.timestamp = 0) =>
       PatternCount(memory[Self], EmailPositive) = now

\* Three passes over the same three positive interactions have left three
\* patterns of the one key.
C28_Witness ==
  /\ lastOp.op = "consolidate" /\ ~lastOp.threw
  /\ Len(GroupOf(memory[Self], "email", "positive")) = 3
  /\ memory[Self].episodic = lastOp.before.episodic
  /\ now >= 3
  /\ PatternCount(memory[Self], EmailPositive) = now

LearningsOn(m, c) ==
  {i \in 1..Len(m.episodic.contextualLearnings) :
     m.episodic.contextualLearnings[i].context = c}

NodesWith(m, c) ==
  {i \in 1..Len(m.semantic.domainKnowledge) : m.semantic.domainKnowledge[i].concept = c}

\* ---------------------------------------------------------------------------
\* C29: a contextualLearnings entry younger than 7 days is applied again by
\* every consolidate(): the first call inserts a domainKnowledge node with
\* the learning's confidence c, each later call raises that node's
\* confidence by 0.1, so after k calls it is min(c + 0.1*(k-1), 1.0); the
\* number of nodes with that concept stays 1 throughout.
\* ---------------------------------------------------------------------------
C29_LearningReapplied ==
  \A i \in 1..Len(memory[Self].episodic.contextualLearnings) :
    LET l == memory[Self].episodic.contextualLearnings[i]
        age == now - l.timestamp
        \* one pass a day: at ages 1 to 6 the learning is younger than 7 days
        k == Min2(age, 6)
        nodes == NodesWith(memory[Self], l.context)
    IN /\ age = 0 /\ LearningsOn(memory[Self], l.context) = {i} => nodes = {}
       /\ age >= 1 => Cardinality(nodes) = 1
       /\ (age >= 1 /\ LearningsOn(memory[Self], l.context) = {i}) =>
            \A n \in nodes :
              BumpedBy(memory[Self].semantic.domainKnowledge[n].confidence,
                       l.confidence, k - 1)

\* The fourth daily pass over one learning stored at 0.3: its node, the
\* only one of its concept, stands at 0.6.
C29_Witness ==
  /\ lastOp.op = "consolidate" /\ ~lastOp.threw
  /\ \E i \in 1..Len(memory[Self].episodic.contextualLearnings) :
       LET l == memory[Self].episodic.contextualLearnings[i] IN
       /\ LearningsOn(memory[Self], l.context) = {i}
       /\ l.confidence = Frac(3, 10)
       /\ now - l.timestamp = 4
       /\ \E n \in NodesWith(memory[Self], l.context) :
            memory[Self].semantic.domainKnowledge[n].confidence = Frac(6, 10)

\* ---------------------------------------------------------------------------
\* MCPClient.sendRequest: one attempt, then a retry or the error
\* ---------------------------------------------------------------------------
retryAttempts == 3

\* What an attempt can end in, and the error object the catch block sees
McpOutcomes ==
  {"ok", "http_404", "http_503", "network", "timeout", "rpc_error", "rpc_fetch_error"}

ErrorOf(outcome) ==
  CASE outcome = "http_404" ->
         [name |-> "Error", message |-> <<"HTTP", " ", "404", ":", " ", "Not Found">>]
    [] outcome = "http_503" ->
         [name |-> "Error",
          message |-> <<"HTTP", " ", "503", ":", " ", "Service Unavailable">>]
    [] outcome = "network" ->
         [name |-> "TypeError", message |-> <<"fetch", " ", "failed">>]
    [] outcome = "timeout" ->
         [name |-> "AbortError", message |-> <<"This operation was aborted">>]
    [] outcome = "rpc_error" ->
         [name |-> "MCPError", message |-> <<"invalid", " ", "params">>, code |-> -32602]
    [] outcome = "rpc_fetch_error" ->
         [name |-> "MCPError", message |-> <<"could not", " ", "fetch", " ", "leads">>,
          code |-> -32000]

isRetryableError(error) ==
  \/ error.name = "AbortError"
  \/ Includes(error.message, <<"fetch">>)
  \/ (Has(error, "status") /\ error.status >= 500)

\* request(): the first attempt is sent
McpRequest ==
  /\ mcp.status \in {"idle", "returned", "threw"}
  /\ mcp' = [status |-> "sending", attempt |-> 1, log |-> <<>>]
  /\ lastOp' = [op |-> "mcp_request"]
  /\ UNCHANGED <<memory, now, nextOid, history, pending>>

\* The attempt ends: the result is returned, or the catch block decides
McpSettle ==
  /\ mcp.status = "sending"
  /\ \E outcome \in McpOutcomes :
       LET retry == outcome # "ok" /\ mcp.attempt < retryAttempts
                      /\ isRetryableError(ErrorOf(outcome))
           entry == [attempt |-> mcp.attempt, outcome |-> outcome,
                     delay |-> IF retry THEN 2 ^ mcp.attempt ELSE 0]
       IN /\ mcp' = [mcp EXCEPT
                       !.status = IF outcome = "ok" THEN "returned"
                                  ELSE IF retry THEN "delaying" ELSE "threw",
                       !.log = Append(@, entry)]
          /\ lastOp' = [op |-> "mcp_attempt", outcome |-> outcome]
  /\ UNCHANGED <<memory, now, nextOid, history, pending>>

\* The backoff delay is over: sendRequest(request, attempt + 1)
McpRetry ==
  /\ mcp.status = "delaying"
  /\ mcp' = [mcp EXCEPT !.status = "sending", !.attempt = @ + 1]
  /\ lastOp' = [op |-> "mcp_retry"]
  /\ UNCHANGED <<memory, now, nextOid, history, pending>>

NextMcp == McpRequest \/ McpSettle \/ McpRetry

SpecMcp == Init /\ [][NextMcp]_vars

\* The failures the retry policy names: a 5xx response, a network error, a
\* timeout
PolicyRetries(outcome) == outcome \in {"http_503", "network", "timeout"}

\* ---------------------------------------------------------------------------
\* C30: an MCP request that ends in a 5xx response, a network error or a
\* timeout is retried with delays of 2^attempt seconds until it succeeds or
\* retryAttempts attempts have been made, and only then is the error thrown;
\* any other error is thrown after the first attempt; no request is
\* attempted more than retryAttempts times.
\* ---------------------------------------------------------------------------
C30_RetryPolicy ==
  mcp.status # "idle" =>
    /\ mcp.attempt <= retryAttempts
    /\ \A i \in 1..Len(mcp.log) :
         LET e == mcp.log[i]
             retried == i < Len(mcp.log) \/ mcp.status \in {"delaying", "sending"}
         IN /\ retried <=> (PolicyRetries(e.outcome) /\ e.attempt < retryAttempts)
            /\ retried => e.delay = 2 ^ e.attempt

====
